---------------------------- MODULE Spec2Model ----------------------------
(***************************************************************************)
(* Softphone SDK: the Facade (Softphone), the Session Manager (Auth) and   *)
(* the Signaling Agent (UserAgent) as one state machine.                   *)
(*                                                                         *)
(* JavaScript runs one task at a time; a task gives up control only at an  *)
(* await on real I/O (an HTTP request, the transport, storage) or when a   *)
(* timer is set.  Every action below is the code between two such points.  *)
(* An await on an already settled promise (Registerer.register() and       *)
(* Registerer.unregister() settle when the request is handed to the        *)
(* transaction layer) is not a suspension point.                           *)
(*                                                                         *)
(* The sip.js engine is outside the repository.  What the model uses of it *)
(*   - UserAgent.start() is a no-op when Started, else it sets Started and *)
(*     connects the transport; stop() is a no-op when Stopped, else it     *)
(*     sets Stopped at once and settles after disposing the registerer and *)
(*     the transport;                                                      *)
(*   - a Registerer has one REGISTER in flight at most: register() and     *)
(*     unregister() reject while one is in flight, and throw once the      *)
(*     registerer is Terminated;                                           *)
(*   - the registerer's stateChange fires on a change of state only; it    *)
(*     becomes Registered only by the answer to a REGISTER in flight.      *)
(***************************************************************************)
EXTENDS Integers, Sequences, FiniteSets

\* ------------------------------------------------------------------ bounds
\* Signaling Agents constructed in one run (start, edge-domain switch).
MaxAgents == 2
\* Token triples issued in one run: 1 is the login's, each refresh issues one.
MaxTok == 2
\* Facade operations the application invokes in one run.
MaxOps == 2
\* Foreground-transition timers pending at one time.
MaxTimers == 1

\* ------------------------------------------------------- program constants
\* UserAgent.#maxRetryAttempts
maxRetryAttempts == 3

Agents == 1..MaxAgents
Perms == {"sdk", "outbound"}
VNs == {"A", "B"}
Domains == {"d1", "d2"}
NoStore == [accessToken |-> 0, refreshToken |-> 0, email |-> FALSE]

VARIABLES
    \* ---- Auth
    accessToken,            \* 0 is null, n > 0 the access token of the n-th triple
    refreshToken,           \* 0 is null
    email,                  \* FALSE is null
    permissions,            \* the permission set, a subset of Perms
    sipToken,               \* Auth.sipToken: 0 is null, 1 a SIP token
    primaryVirtualNumber,   \* Auth.#primaryVirtualNumber: "none" or a VN
    store,                  \* the persisted record (TokenManager), NoStore when absent
    accessExpired,          \* the access token's embedded expiry has passed
    sipExpired,             \* the SIP token's embedded expiry has passed
    \* ---- Softphone
    userAgent,              \* Softphone.#userAgent: 0 is null, else an agent
    server,                 \* Softphone.#server: "none" or a domain
    clientListeners,        \* Softphone.#clientListeners is set
    appStateSubscription,   \* Softphone.#appStateSubscription is set
    primaryVN,              \* Softphone.#primaryVN
    timers,                 \* pending setTimeout callbacks of #handleAppStateChange
    \* ---- UserAgent objects
    ua,                     \* agent -> its fields
    nAgents,                \* agents constructed so far
    \* ---- the Facade operation in flight
    op,                     \* its name, position, arguments and bookkeeping
    nOps,                   \* operations invoked so far
    par,                    \* a second Facade operation, suspended at an await
                            \* while op runs (NoOp when there is none)
    \* ---- observation
    calls,                  \* the library and backend calls made by the last step
    events,                 \* the listener events delivered by the last step
    \* ---- calls: Session objects and the application's listeners
    sess,                   \* session -> the state of its dialog, "none" before it exists
    nSessions,              \* Session objects constructed so far
    uaSession,              \* UserAgent.#session: 0 is null
    app,                    \* the application: tracked session, call state, contact
    sdir,                   \* session -> "Incoming" (Invitation), "Outgoing" (Inviter)
    cbs,                    \* the call listeners invoked by the last step
    reqs,                   \* the Session methods called and the sip.js requests
                            \* they made in the last step
    obs                     \* observation: call-created events so far, hangup
                            \* callbacks per session, a callback after the hangup

authVars == <<accessToken, refreshToken, email, permissions, sipToken,
              primaryVirtualNumber, store, accessExpired, sipExpired>>
facadeVars == <<userAgent, server, clientListeners, appStateSubscription, primaryVN>>
vars == <<accessToken, refreshToken, email, permissions, sipToken,
          primaryVirtualNumber, store, accessExpired, sipExpired,
          userAgent, server, clientListeners, appStateSubscription, primaryVN,
          timers, ua, nAgents, op, nOps, par, calls, events,
          sess, nSessions, uaSession, app, sdir, cbs, reqs, obs>>
\* What the Facade, the Session Manager and the agents' own events leave
\* alone: the calls, and the operation that is suspended.
appVars == <<sess, nSessions, uaSession, app, sdir, cbs, reqs, obs, par>>

\* ------------------------------------------------------------ Auth helpers
\* Auth.isLoggedIn
isLoggedIn == accessToken # 0

\* The guard that opens registerSoftphone, retrieveUserProfile, retrieveUserRoles.
HasTokenAndEmail == accessToken # 0 /\ email

\* What the backend may answer to a bearer-authenticated request: an expired
\* token is never accepted.
BearerAnswers == IF accessExpired THEN {"401", "error"} ELSE {"ok", "401", "error"}

\* ------------------------------------------------------------- UserAgent
\* A UserAgent that has not been constructed yet.
NoAgent == [made |-> FALSE, domain |-> "none", uaState |-> "Stopped",
            transport |-> "Disconnected", reg |-> "none", waiting |-> "none",
            reRegisterAttempts |-> 0, updatingAuth |-> FALSE, hpc |-> "idle",
            stopping |-> FALSE, startRes |-> "none",
            \* observation only, read by no operation:
            \*   intent  an explicit unregister() or stopUA() whose Unregistered
            \*           transition has not been delivered yet
            \*   halted  stopped on purpose and not restarted by the application
            \*   unregs  Unregistered transitions since construction or the
            \*           last Registered transition; autos: the automatic
            \*           re-registrations they started; clean: all of them
            \*           came while logged in, with no explicit unregister or
            \*           stop and no token exchange pending or failed
            \*   seen    the last Unregistered transition: the intent it met
            \*           and whether it started a re-registration
            \*   asker   who sent the registerer's last REGISTER: the agent
            \*           itself, connect() or the lifecycle timer
            intent |-> "none", halted |-> FALSE, unregs |-> 0, autos |-> 0,
            clean |-> TRUE, seen |-> [intent |-> "none", auto |-> FALSE],
            asker |-> "none"]

\* new UserAgent(config)
NewAgent(d) == [NoAgent EXCEPT !.made = TRUE, !.domain = d]

\* One call into sip.js or to the backend, with the agent's state when it is made.
\* x: "refused" when sip.js rejects the call without sending anything.
Call(k, a, by, r) == [k |-> k, a |-> a, by |-> by, s |-> r.uaState,
                      t |-> r.transport, g |-> r.reg, h |-> r.halted, x |-> "made"]

Refused(c) == [c EXCEPT !.x = "refused"]

\* A backend call made by the Facade or by Auth outside any agent.
Http(k) == [k |-> k, a |-> 0, by |-> "facade", s |-> "none", t |-> "none",
            g |-> "none", h |-> FALSE, x |-> "made"]

\* listeners.onConnectionStateChange(type, state, isErrorState), from agent a.
Event(a, type, state, isError) ==
    [a |-> a, type |-> type, state |-> state, isError |-> isError]

Cap(n) == IF n > maxRetryAttempts + 1 THEN maxRetryAttempts + 1 ELSE n

\* sip.js UserAgent.start(), as startUA and reconnect use it.
UAStart(r) ==
    IF r.uaState = "Started" THEN [r EXCEPT !.startRes = "ok"]
    ELSE IF r.transport = "Disconnected"
         THEN [r EXCEPT !.uaState = "Started", !.transport = "Connecting",
                        !.startRes = "pending"]
         ELSE [r EXCEPT !.uaState = "Started", !.startRes = "ok"]

\* sip.js Registerer.register() / unregister() refuse the request.
Refuses(r) == r.reg = "Terminated" \/ r.waiting # "none"

\* UserAgent.startRegistration: a new Registerer with the listener, then register().
startRegistration(r) ==
    [r EXCEPT !.reg = "Initial", !.waiting = "register", !.asker = "agent"]

\* UserAgent.unregister: the counter is set to 3, then the registerer, if any, is
\* asked to unregister.  threw: the registerer refused.
unregister(r) ==
    LET r1 == [r EXCEPT !.reRegisterAttempts = 3]
    IN  IF r1.reg = "none" THEN [r |-> r1, sent |-> FALSE, threw |-> FALSE]
        ELSE IF Refuses(r1) THEN [r |-> r1, sent |-> FALSE, threw |-> TRUE]
        ELSE [r |-> [r1 EXCEPT !.waiting = "unregister"], sent |-> TRUE, threw |-> FALSE]

\* UserAgent.stopUA up to its await: the counter is set to 3, then sip.js stop().
stopUA(r) ==
    LET r1 == [r EXCEPT !.reRegisterAttempts = 3]
    IN  IF r1.uaState = "Stopped" THEN r1
        ELSE [r1 EXCEPT !.uaState = "Stopped", !.stopping = TRUE]

\* UserAgent.reRegister, entered from the listener.  inAnswer: the transition is
\* the answer to the registerer's request in flight, whose waiting flag sip.js
\* clears right after the listener's synchronous part.
\* Result: the agent, whether the SIP-token exchange was sent, the calls made.
reRegister(a, r, inAnswer) ==
    LET u  == unregister(r)
        r2 == IF inAnswer THEN [u.r EXCEPT !.waiting = "none"] ELSE u.r
        c1 == IF u.sent THEN <<Call("unregister", a, "auto", r)>> ELSE <<>>
    IN  IF sipToken # 0 /\ sipExpired
        THEN \* #updateToken
             LET r3 == [r2 EXCEPT !.updatingAuth = TRUE]
             IN  IF ~HasTokenAndEmail
                 THEN [r |-> r3, calls |-> c1]
                 ELSE [r |-> [r3 EXCEPT !.hpc = "rr_token"],
                       calls |-> c1 \o <<Call("http:sip", a, "auto", r)>>]
        ELSE [r |-> startRegistration(r2),
              calls |-> c1 \o <<Call("register", a, "auto", r)>>]

\* A listener that leaves the counter as it is on Registered.
Registered_KeepsCount(r) == [r EXCEPT !.unregs = 0, !.autos = 0, !.clean = TRUE]

\* The listener's case Registered: the counter is reset.
Registered(r) ==
    [r EXCEPT !.reRegisterAttempts = 0, !.unregs = 0, !.autos = 0, !.clean = TRUE]

\* The registerer's stateChange listener; r.reg is already the new state.
Listener(a, r, inAnswer) ==
    LET ev == <<Event(a, "RegistererState", r.reg,
                      r.reRegisterAttempts >= maxRetryAttempts)>>
        settle == IF inAnswer THEN [r EXCEPT !.waiting = "none"] ELSE r
    IN  CASE r.reg = "Unregistered" ->
                LET go == ~r.updatingAuth /\ isLoggedIn
                          /\ r.reRegisterAttempts < maxRetryAttempts
                    r0 == [r EXCEPT !.unregs = Cap(@ + 1),
                                    !.clean = @ /\ isLoggedIn /\ ~r.updatingAuth
                                                /\ r.intent = "none" /\ ~r.halted
                                                /\ ~(sipToken # 0 /\ sipExpired),
                                    !.seen = [intent |-> r.intent, auto |-> go],
                                    !.intent = "none"]
                IN  IF go
                    THEN LET rr == reRegister(a,
                                     [r0 EXCEPT !.reRegisterAttempts = @ + 1,
                                                !.autos = Cap(@ + 1)],
                                     inAnswer)
                         IN  [r |-> rr.r, calls |-> rr.calls, events |-> ev]
                    ELSE [r |-> IF inAnswer THEN [r0 EXCEPT !.waiting = "none"] ELSE r0,
                          calls |-> <<>>, events |-> ev]
          [] r.reg = "Registered" ->
                [r |-> Registered(settle), calls |-> <<>>, events |-> ev]
          [] OTHER -> [r |-> settle, calls |-> <<>>, events |-> ev]

\* UserAgent.reconnect.  The test of step 2 reads the method transport.isConnected
\* without calling it, so it is never taken.
reconnect(a, r, by) ==
    LET me == Call("reconnect", a, by, r)
    IN  IF r.uaState = "Stopped"
        THEN [r |-> UAStart(r), calls |-> <<me, Call("start", a, by, r)>>,
              threw |-> FALSE]
        ELSE IF r.reg # "none" /\ r.reg # "Registered"
             THEN IF Refuses(r)
                  THEN [r |-> r, calls |-> <<me, Refused(Call("register", a, by, r))>>,
                        threw |-> TRUE]
                  ELSE [r |-> [r EXCEPT !.waiting = "register", !.asker = by],
                        calls |-> <<me, Call("register", a, by, r)>>, threw |-> FALSE]
             ELSE [r |-> r, calls |-> <<me>>, threw |-> FALSE]

\* ------------------------------------------------ the agent's own events
\* delegate.onConnect: the transport is up; registration starts.
OnConnect(a) ==
    /\ ua[a].made /\ ua[a].transport = "Connecting"
    /\ LET r == [ua[a] EXCEPT !.transport = "Connected", !.startRes = "ok"]
       IN  /\ ua' = [ua EXCEPT ![a] = startRegistration(r)]
           /\ calls' = <<Call("register", a, "initial", r)>>
    /\ events' = <<Event(a, "UserAgentState", "Connected", FALSE)>>
    /\ UNCHANGED <<authVars, facadeVars, timers, nAgents, op, nOps>>
    /\ UNCHANGED appVars

\* The transport could not be opened: start() rejects.
ConnectFailed(a) ==
    /\ ua[a].made /\ ua[a].transport = "Connecting"
    /\ ua' = [ua EXCEPT ![a].transport = "Disconnected", ![a].startRes = "fail"]
    /\ calls' = <<>>
    /\ events' = <<Event(a, "UserAgentState", "Disconnected", TRUE)>>
    /\ UNCHANGED <<authVars, facadeVars, timers, nAgents, op, nOps>>
    /\ UNCHANGED appVars

\* delegate.onDisconnect: the transport is lost; the agent stays Started.
OnDisconnect(a) ==
    /\ ua[a].made /\ ua[a].transport = "Connected" /\ ~ua[a].stopping
    /\ ua' = [ua EXCEPT ![a].transport = "Disconnected"]
    /\ calls' = <<>>
    /\ events' = <<Event(a, "UserAgentState", "Disconnected", TRUE)>>
    /\ UNCHANGED <<authVars, facadeVars, timers, nAgents, op, nOps>>
    /\ UNCHANGED appVars

\* The answer to the registerer's request in flight.
RegAnswer(a, new) ==
    /\ ua[a].made /\ ua[a].waiting # "none"
    /\ new = "Registered" =>
          ua[a].waiting = "register" /\ ua[a].transport = "Connected"
    /\ IF new = ua[a].reg
       THEN /\ ua' = [ua EXCEPT ![a].waiting = "none"]
            /\ calls' = <<>>
            /\ events' = <<>>
       ELSE LET l == Listener(a, [ua[a] EXCEPT !.reg = new], TRUE)
            IN  /\ ua' = [ua EXCEPT ![a] = l.r]
                /\ calls' = l.calls
                /\ events' = l.events
    /\ UNCHANGED <<authVars, facadeVars, timers, nAgents, op, nOps>>
    /\ UNCHANGED appVars

\* A registration lapses (expiry, failed refresh): Registered -> Unregistered.
RegLapse(a) ==
    /\ ua[a].made /\ ua[a].reg = "Registered" /\ ua[a].waiting = "none"
    /\ LET l == Listener(a, [ua[a] EXCEPT !.reg = "Unregistered"], FALSE)
       IN  /\ ua' = [ua EXCEPT ![a] = l.r]
           /\ calls' = l.calls
           /\ events' = l.events
    /\ UNCHANGED <<authVars, facadeVars, timers, nAgents, op, nOps>>
    /\ UNCHANGED appVars

\* #updateToken resumes with the backend's answer to registerSoftphone.
UpdateTokenAnswer(a, ans) ==
    /\ ua[a].made /\ ua[a].hpc = "rr_token"
    /\ ans \in BearerAnswers
    /\ IF ans = "ok"
       THEN /\ sipToken' = 1
            /\ sipExpired' = FALSE
            /\ ua' = [ua EXCEPT ![a] = startRegistration(
                          [ua[a] EXCEPT !.hpc = "idle", !.updatingAuth = FALSE])]
            /\ calls' = <<Call("register", a, "auto", ua[a])>>
       ELSE \* registerSoftphone throws: #updatingAuth is left set
            /\ ua' = [ua EXCEPT ![a].hpc = "idle"]
            /\ calls' = <<>>
            /\ UNCHANGED <<sipToken, sipExpired>>
    /\ events' = <<>>
    /\ UNCHANGED <<accessToken, refreshToken, email, permissions,
                   primaryVirtualNumber, store, accessExpired,
                   facadeVars, timers, nAgents, op, nOps>>
    /\ UNCHANGED appVars

\* sip.js stop() settles: registerer and transport are disposed.
StopSettles(a) ==
    /\ ua[a].made /\ ua[a].stopping
    /\ LET r == [ua[a] EXCEPT !.stopping = FALSE, !.transport = "Disconnected",
                              !.waiting = "none",
                              !.reg = IF @ = "none" THEN "none" ELSE "Terminated"]
       IN  /\ ua' = [ua EXCEPT ![a] = r]
           /\ events' =
                 (IF ua[a].reg \in {"none", "Terminated"} THEN <<>>
                  ELSE <<Event(a, "RegistererState", "Terminated",
                               r.reRegisterAttempts >= maxRetryAttempts)>>)
                 \o (IF ua[a].transport = "Disconnected" THEN <<>>
                     ELSE <<Event(a, "UserAgentState", "Disconnected", FALSE)>>)
    /\ calls' = <<>>
    /\ UNCHANGED <<authVars, facadeVars, timers, nAgents, op, nOps>>
    /\ UNCHANGED appVars

\* The tokens' embedded expiry passes.
TokenExpires ==
    /\ \/ /\ accessToken # 0 /\ ~accessExpired
          /\ accessExpired' = TRUE /\ UNCHANGED sipExpired
       \/ /\ sipToken # 0 /\ ~sipExpired
          /\ sipExpired' = TRUE /\ UNCHANGED accessExpired
    /\ calls' = <<>> /\ events' = <<>>
    /\ UNCHANGED <<accessToken, refreshToken, email, permissions, sipToken,
                   primaryVirtualNumber, store, facadeVars, timers, ua, nAgents,
                   op, nOps>>
    /\ UNCHANGED appVars


\* ================================================================ Softphone
\* The entry points that produce a session: Softphone.initialize,
\* Auth.handleRedirect and Auth.manualLogin.
LoginOps == {"initialize", "handleRedirect", "manualLogin"}

\* The operation record when none is in flight.
NoOp == [name |-> "idle", pc |-> "idle", number |-> "valid", vn |-> "none",
         execs |-> 0, refreshes |-> 0, refreshed |-> "none", err |-> "none",
         firstErr |-> "none", agent |-> 0, dom |-> "none", out |-> "none",
         logged |-> FALSE, outbound |-> FALSE, cur |-> "none", target |-> "none",
         patches |-> 0, invites |-> 0, prev |-> "none", rfSent |-> 0,
         fetched |-> 0, denied |-> FALSE, verify |-> "none", found |-> FALSE,
         tok0 |-> 0,
         token |-> [present |-> FALSE, decodes |-> FALSE, exp |-> -1], reason |-> "none", urlMail |-> <<>>,
         mail |-> <<>>, savedMail |-> <<>>, ret |-> <<>>, saves |-> 0,
         clearing |-> FALSE,
         given |-> [email |-> FALSE, refresh |-> FALSE, id |-> FALSE,
                    secret |-> FALSE],
         active |-> "none", lst |-> "none", had |-> FALSE, subs |-> 0]

\* The operation ends with a value or an error that reaches the application.
Ends(o, out) == [o EXCEPT !.pc = "done", !.out = out]

\* A wrapper whose catch is around every execution of the body.
Throws_Recursing(o, e) ==
    [o EXCEPT !.pc = "caught", !.err = e,
              !.firstErr = IF o.execs = 1 THEN e ELSE @]

\* The running execution of the wrapped body throws e.  The catch of
\* executeWithRetry is around the first execution only.
Throws(o, e) ==
    IF o.execs = 1
    THEN [o EXCEPT !.pc = "caught", !.err = e, !.firstErr = e]
    ELSE Ends([o EXCEPT !.err = e], e)

\* Auth.logout up to its await on TokenManager.clear.
AuthLogoutSync ==
    /\ accessToken' = 0
    /\ refreshToken' = 0
    /\ email' = FALSE
    /\ permissions' = {}

\* The application calls start, makeCall, connect or logout.  A logout may be
\* called once more right after a logout, beyond the bound on the operations.
Invoke(name, number, vn) ==
    /\ op.pc \in {"idle", "done"}
    /\ \/ nOps < MaxOps
       \/ nOps = MaxOps /\ name = "logout" /\ op.name = "logout"
    /\ nOps' = nOps + 1
    /\ op' = [NoOp EXCEPT !.name = name, !.number = number, !.vn = vn,
                          !.prev = op.name,
                          !.pc = IF name = "logout" THEN "lo_begin" ELSE "body"]
    /\ calls' = <<>> /\ events' = <<>>
    /\ UNCHANGED <<authVars, facadeVars, timers, ua, nAgents>>
    /\ UNCHANGED appVars

\* The last step of makeCall: this.#userAgent?.makeCall(number, options), up to
\* the await on inviter.invite().
InviteStep(o) ==
    IF userAgent = 0
    THEN /\ op' = Ends(o, "undefined")
         /\ calls' = <<>>
    ELSE /\ op' = [o EXCEPT !.pc = "mc_invite", !.agent = userAgent,
                            !.invites = @ + 1]
         /\ calls' = <<Call("invite", userAgent, "facade", ua[userAgent])>>

\* start's body up to its first await.
StartBody ==
    /\ op.pc = "body" /\ op.name = "start"
    /\ LET o == [op EXCEPT !.execs = @ + 1,
                           !.had = IF op.execs = 0 THEN userAgent # 0 ELSE @]
       IN  IF ~isLoggedIn THEN
                /\ op' = Throws(o, "Unauthorized") /\ calls' = <<>>
           ELSE IF userAgent # 0 THEN
                /\ op' = Ends(o, "ok") /\ calls' = <<>>
           ELSE IF ~HasTokenAndEmail THEN
                /\ op' = Throws(o, "InvalidToken") /\ calls' = <<>>
           ELSE /\ op' = [o EXCEPT !.pc = "st_sip"]
                /\ calls' = <<Http("http:sip")>>
    /\ events' = <<>>
    /\ UNCHANGED <<authVars, facadeVars, timers, ua, nAgents, nOps>>
    /\ UNCHANGED appVars

\* start: the answer to registerSoftphone, then retrieveUserProfile is sent.
StartSipAnswer(ans) ==
    /\ op.pc = "st_sip"
    /\ ans \in BearerAnswers
    /\ IF ans = "ok"
       THEN /\ sipToken' = 1
            /\ sipExpired' = FALSE
            /\ IF ~HasTokenAndEmail
               THEN op' = Throws(op, "InvalidToken") /\ calls' = <<>>
               ELSE op' = [op EXCEPT !.pc = "st_profile"]
                    /\ calls' = <<Http("http:profile")>>
       ELSE /\ op' = Throws(op, IF ans = "401" THEN "InvalidToken" ELSE "Unknown")
            /\ calls' = <<>>
            /\ UNCHANGED <<sipToken, sipExpired>>
    /\ events' = <<>>
    /\ UNCHANGED <<accessToken, refreshToken, email, permissions,
                   primaryVirtualNumber, store, accessExpired,
                   facadeVars, timers, ua, nAgents, nOps>>
    /\ UNCHANGED appVars

\* start's tests, made after its backend calls, of whether an agent and a
\* lifecycle subscription are still to be created.
NeedsAgent_Unchecked == TRUE

NeedsAgent == userAgent = 0

NeedsSubscription == ~appStateSubscription

\* start: the answer to retrieveUserProfile; the agent is constructed and started.
StartProfileAnswer(ans, d, def) ==
    /\ op.pc = "st_profile"
    /\ ans \in BearerAnswers
    /\ IF ans = "ok"
       THEN /\ nAgents < MaxAgents
            /\ primaryVirtualNumber' = IF def = "none" THEN primaryVirtualNumber ELSE def
            /\ server' = d
            /\ clientListeners' = TRUE
            /\ IF NeedsAgent
               THEN /\ nAgents' = nAgents + 1
                    /\ userAgent' = nAgents + 1
                    /\ ua' = [ua EXCEPT ![nAgents + 1] = UAStart(NewAgent(d))]
                    /\ calls' = <<Call("start", nAgents + 1, "facade", NewAgent(d))>>
                    /\ op' = [op EXCEPT !.pc = "st_ua", !.agent = nAgents + 1]
               ELSE /\ UNCHANGED <<nAgents, userAgent, ua>>
                    /\ calls' = <<>>
                    /\ op' = [op EXCEPT !.pc = "st_ua", !.agent = 0]
       ELSE /\ d = "d1" /\ def = "none"
            /\ op' = Throws(op, IF ans = "401" THEN "InvalidToken" ELSE "Unknown")
            /\ calls' = <<>>
            /\ UNCHANGED <<primaryVirtualNumber, server, clientListeners, nAgents,
                           userAgent, ua>>
    /\ events' = <<>>
    /\ UNCHANGED <<accessToken, refreshToken, email, permissions, sipToken, store,
                   accessExpired, sipExpired, appStateSubscription, primaryVN,
                   timers, nOps>>
    /\ UNCHANGED appVars

\* start: startUA has settled; the lifecycle subscription is registered.
StartAgentUp ==
    /\ op.pc = "st_ua"
    /\ op.agent # 0 => ua[op.agent].startRes \in {"ok", "fail"}
    /\ IF op.agent # 0 /\ ua[op.agent].startRes = "fail"
       THEN /\ op' = Throws(op, "Error")
            /\ UNCHANGED appStateSubscription
       ELSE /\ op' = Ends([op EXCEPT !.subs = IF NeedsSubscription THEN @ + 1
                                                 ELSE @], "ok")
            /\ appStateSubscription' = TRUE
    /\ calls' = <<>> /\ events' = <<>>
    /\ UNCHANGED <<authVars, userAgent, server, clientListeners, primaryVN,
                   timers, ua, nAgents, nOps>>
    /\ UNCHANGED appVars

\* makeCall's test of the outbound-calls permission.
PermissionError_None == "none"

PermissionError ==
    IF "outbound" \notin permissions THEN "PermissionDenied" ELSE "none"

\* makeCall's test of the destination: empty, then validatePhoneNumber.  The
\* destinations are the three classes the tests tell apart.
NumberError_None(number) == "none"

NumberError(number) ==
    CASE number = "empty"   -> "MissingParameter"
      [] number = "invalid" -> "InvalidValue"
      [] OTHER              -> "none"

\* makeCall: the caller id of the call, the explicit one or else the cached one.
Target(vn, currentProfileVN) == IF vn # "none" THEN vn ELSE currentProfileVN

\* makeCall's test of the caller id it resolved.
CallerIdError_None(target) == "none"

CallerIdError(target) == IF target = "none" THEN "MissingParameter" ELSE "none"

\* makeCall's test for the profile update before the call.
NeedsPatch_Always(vn, currentProfileVN) == vn # "none"

NeedsPatch(vn, currentProfileVN) ==
    vn # "none" /\ currentProfileVN # "none" /\ vn # currentProfileVN

\* makeCall's body up to its first await.
MakeCallBody ==
    /\ op.pc = "body" /\ op.name = "makeCall"
    /\ LET currentProfileVN == primaryVirtualNumber
           target == Target(op.vn, currentProfileVN)
           o == [op EXCEPT !.execs = @ + 1, !.logged = isLoggedIn,
                           !.outbound = "outbound" \in permissions,
                           !.cur = currentProfileVN, !.target = target,
                           !.active = IF @ = "none" THEN primaryVN ELSE @]
       IN  IF ~isLoggedIn THEN
                op' = Throws(o, "Unauthorized") /\ calls' = <<>>
           ELSE IF PermissionError # "none" THEN
                op' = Throws(o, PermissionError) /\ calls' = <<>>
           ELSE IF NumberError(o.number) # "none" THEN
                op' = Throws(o, NumberError(o.number)) /\ calls' = <<>>
           ELSE IF CallerIdError(target) # "none" THEN
                op' = Throws(o, CallerIdError(target)) /\ calls' = <<>>
           ELSE IF NeedsPatch(o.vn, currentProfileVN)
           THEN /\ op' = [o EXCEPT !.pc = "mc_patch", !.patches = @ + 1]
                /\ calls' = <<Http("http:patch")>>
           ELSE InviteStep(o)
    /\ events' = <<>>
    /\ UNCHANGED <<authVars, facadeVars, timers, ua, nAgents, nOps>>
    /\ UNCHANGED appVars

\* makeCall: the answer to #updatePrimaryVirtualNumber; on a new edge domain
\* #handleEdgeDomainChange unregisters and stops the agent.
PatchAnswer(ans, d) ==
    /\ op.pc = "mc_patch"
    /\ ans \in BearerAnswers
    /\ events' = <<>>
    /\ IF ans # "ok"
       THEN /\ d = "d1"
            /\ op' = Throws(op, IF ans = "401" THEN "InvalidToken" ELSE "Unknown")
            /\ calls' = <<>>
            /\ UNCHANGED <<primaryVN, ua>>
       ELSE /\ primaryVN' = op.vn
            /\ IF d = server
               THEN InviteStep(op) /\ UNCHANGED ua
               ELSE IF userAgent = 0
               THEN op' = Throws(op, "Unknown") /\ calls' = <<>> /\ UNCHANGED ua
               ELSE LET r0 == [ua[userAgent] EXCEPT !.intent = "unregister",
                                                    !.clean = FALSE]
                        u  == unregister(r0)
                        r1 == [u.r EXCEPT !.intent = "stop", !.halted = TRUE]
                    IN  IF u.threw
                        THEN /\ op' = Throws(op, "Error")
                             /\ calls' = <<>>
                             /\ ua' = [ua EXCEPT ![userAgent] = u.r]
                        ELSE /\ op' = [op EXCEPT !.pc = "ed_stop", !.dom = d,
                                                 !.agent = userAgent]
                             /\ calls' = (IF u.sent
                                          THEN <<Call("unregister", userAgent, "facade", r0)>>
                                          ELSE <<>>)
                                         \o <<Call("stop", userAgent, "facade", r0)>>
                             /\ ua' = [ua EXCEPT ![userAgent] = stopUA(r1)]
    /\ UNCHANGED <<authVars, userAgent, server, clientListeners,
                   appStateSubscription, timers, nAgents, nOps>>
    /\ UNCHANGED appVars

\* #handleEdgeDomainChange: stopUA has settled; the agent is dropped and new SIP
\* credentials are requested.
EdgeStopped ==
    /\ op.pc = "ed_stop"
    /\ ~ua[op.agent].stopping
    /\ server' = op.dom
    /\ userAgent' = 0
    /\ IF ~HasTokenAndEmail
       THEN op' = Throws(op, "InvalidToken") /\ calls' = <<>>
       ELSE op' = [op EXCEPT !.pc = "ed_sip"] /\ calls' = <<Http("http:sip")>>
    /\ events' = <<>>
    /\ UNCHANGED <<authVars, clientListeners, appStateSubscription, primaryVN,
                   timers, ua, nAgents, nOps>>
    /\ UNCHANGED appVars

\* #handleEdgeDomainChange: the answer to registerSoftphone; the agent for the
\* new domain is constructed and started.
EdgeSipAnswer(ans) ==
    /\ op.pc = "ed_sip"
    /\ ans \in BearerAnswers
    /\ IF ans = "ok"
       THEN /\ nAgents < MaxAgents
            /\ sipToken' = 1
            /\ sipExpired' = FALSE
            /\ nAgents' = nAgents + 1
            /\ userAgent' = nAgents + 1
            /\ ua' = [ua EXCEPT ![nAgents + 1] = UAStart(NewAgent(op.dom))]
            /\ calls' = <<Call("start", nAgents + 1, "facade", NewAgent(op.dom))>>
            /\ op' = [op EXCEPT !.pc = "ed_start", !.agent = nAgents + 1]
       ELSE /\ op' = Throws(op, IF ans = "401" THEN "InvalidToken" ELSE "Unknown")
            /\ calls' = <<>>
            /\ UNCHANGED <<sipToken, sipExpired, nAgents, userAgent, ua>>
    /\ events' = <<>>
    /\ UNCHANGED <<accessToken, refreshToken, email, permissions,
                   primaryVirtualNumber, store, accessExpired, server,
                   clientListeners, appStateSubscription, primaryVN, timers, nOps>>
    /\ UNCHANGED appVars

\* #handleEdgeDomainChange: startUA of the new agent has settled; the invite follows.
EdgeAgentUp ==
    /\ op.pc = "ed_start"
    /\ ua[op.agent].startRes \in {"ok", "fail"}
    /\ IF ua[op.agent].startRes = "fail"
       THEN op' = Throws(op, "Error") /\ calls' = <<>>
       ELSE InviteStep(op)
    /\ events' = <<>>
    /\ UNCHANGED <<authVars, facadeVars, timers, ua, nAgents, nOps>>
    /\ UNCHANGED appVars

\* UserAgent.makeCall: inviter.invite() has settled.
InviteSettles(sent) ==
    /\ op.pc = "mc_invite"
    /\ sent => ua[op.agent].transport = "Connected"
    /\ op' = Ends(op, IF sent THEN "true" ELSE "false")
    /\ calls' = <<>> /\ events' = <<>>
    /\ UNCHANGED <<authVars, facadeVars, timers, ua, nAgents, nOps>>
    /\ UNCHANGED appVars

\* ------------------------------------------------------- executeWithRetry
\* Auth.refreshAccessToken up to its first await, with refresh token rt held:
\* it returns false at once when none is held, else the request is sent.
BeginRefresh(o, rt) ==
    IF rt = 0
    THEN /\ op' = [o EXCEPT !.pc = "refreshed", !.refreshes = @ + 1,
                            !.refreshed = "false"]
         /\ calls' = <<>>
    ELSE /\ op' = [o EXCEPT !.pc = "rf_fetch", !.refreshes = @ + 1,
                            !.rfSent = @ + 1]
         /\ calls' = <<Http("http:refresh")>>

\* The catch of executeWithRetry: an InvalidTokenException starts the refresh,
\* any other error is thrown on.
Catch ==
    /\ op.pc = "caught"
    /\ IF op.err # "InvalidToken"
       THEN op' = Ends(op, op.err) /\ calls' = <<>>
       ELSE BeginRefresh(op, refreshToken)
    /\ events' = <<>>
    /\ UNCHANGED <<authVars, facadeVars, timers, ua, nAgents, nOps>>
    /\ UNCHANGED appVars

\* Auth.refreshAccessToken: the answer of the refresh endpoint.
RefreshAnswer(ok) ==
    /\ op.pc = "rf_fetch"
    /\ IF ok
       THEN /\ accessToken < MaxTok
            /\ accessToken' = accessToken + 1
            /\ refreshToken' = accessToken + 1
            /\ accessExpired' = FALSE
            /\ op' = [op EXCEPT !.pc = IF email THEN "rf_save" ELSE "rf_roles_go"]
       ELSE /\ op' = [op EXCEPT !.pc = "refreshed", !.refreshed = "false"]
            /\ UNCHANGED <<accessToken, refreshToken, accessExpired>>
    /\ calls' = <<>> /\ events' = <<>>
    /\ UNCHANGED <<email, permissions, sipToken, primaryVirtualNumber, store,
                   sipExpired, facadeVars, timers, ua, nAgents, nOps>>
    /\ UNCHANGED appVars

\* Auth.refreshAccessToken: TokenManager.save has settled; retrieveUserRoles is
\* entered (also straight from the answer when no email is held).
RefreshSaved ==
    /\ op.pc \in {"rf_save", "rf_roles_go"}
    /\ store' = IF op.pc = "rf_save"
                THEN [accessToken |-> accessToken, refreshToken |-> refreshToken,
                      email |-> email]
                ELSE store
    /\ IF ~HasTokenAndEmail
       THEN /\ op' = [op EXCEPT !.pc = "refreshed", !.refreshed = "false"]
            /\ calls' = <<>>
       ELSE /\ op' = [op EXCEPT !.pc = "rf_roles"]
            /\ calls' = <<Http("http:roles")>>
    /\ events' = <<>>
    /\ UNCHANGED <<accessToken, refreshToken, email, permissions, sipToken,
                   primaryVirtualNumber, accessExpired, sipExpired,
                   facadeVars, timers, ua, nAgents, nOps>>
    /\ UNCHANGED appVars

\* Auth.retrieveUserRoles inside the refresh: the answer of the roles endpoint.
\* Without the SDK permission the session is logged out.
RefreshRolesAnswer(ans, P) ==
    /\ op.pc = "rf_roles"
    /\ ans \in BearerAnswers
    /\ IF ans = "ok"
       THEN IF "sdk" \in P
            THEN /\ permissions' = P
                 /\ op' = [op EXCEPT !.pc = "refreshed", !.refreshed = "true",
                                     !.fetched = @ + 1]
                 /\ UNCHANGED <<accessToken, refreshToken, email>>
            ELSE /\ AuthLogoutSync
                 /\ op' = [op EXCEPT !.pc = "rf_clear", !.fetched = @ + 1,
                                     !.denied = TRUE]
       ELSE /\ P = {}
            /\ op' = [op EXCEPT !.pc = "refreshed", !.refreshed = "false"]
            /\ UNCHANGED <<accessToken, refreshToken, email, permissions>>
    /\ calls' = <<>> /\ events' = <<>>
    /\ UNCHANGED <<sipToken, primaryVirtualNumber, store, accessExpired, sipExpired,
                   facadeVars, timers, ua, nAgents, nOps>>
    /\ UNCHANGED appVars

\* Auth.logout inside retrieveUserRoles: TokenManager.clear has settled; the
\* PermissionDeniedException is caught by refreshAccessToken, which returns false.
RefreshCleared ==
    /\ op.pc = "rf_clear"
    /\ store' = NoStore
    /\ op' = [op EXCEPT !.pc = "refreshed", !.refreshed = "false"]
    /\ calls' = <<>> /\ events' = <<>>
    /\ UNCHANGED <<accessToken, refreshToken, email, permissions, sipToken,
                   primaryVirtualNumber, accessExpired, sipExpired,
                   facadeVars, timers, ua, nAgents, nOps>>
    /\ UNCHANGED appVars

\* A wrapper that throws Unauthorized without logging out.
AfterRefresh_NoLogout ==
    /\ op.pc = "refreshed"
    /\ op.name \notin LoginOps
    /\ op' = IF op.refreshed = "true" THEN [op EXCEPT !.pc = "body"]
             ELSE Ends(op, "Unauthorized")
    /\ calls' = <<>> /\ events' = <<>>
    /\ UNCHANGED <<authVars, facadeVars, timers, ua, nAgents, nOps>>
    /\ UNCHANGED appVars

\* executeWithRetry after the refresh: the body once more, or logout.
AfterRefresh ==
    /\ op.pc = "refreshed"
    /\ op.name \notin LoginOps
    /\ op' = [op EXCEPT !.pc = IF op.refreshed = "true" THEN "body" ELSE "lo_begin"]
    /\ calls' = <<>> /\ events' = <<>>
    /\ UNCHANGED <<authVars, facadeVars, timers, ua, nAgents, nOps>>
    /\ UNCHANGED appVars

\* ------------------------------------------------------------------ logout
\* A logout that requires an agent to stop.
LogoutBegin_NeedsAgent ==
    /\ op.pc = "lo_begin"
    /\ appStateSubscription' = FALSE
    /\ IF userAgent # 0
       THEN /\ ua' = [ua EXCEPT ![userAgent] =
                         stopUA([@ EXCEPT !.intent = "stop", !.halted = TRUE,
                                          !.clean = FALSE])]
            /\ calls' = <<Call("stop", userAgent, "facade", ua[userAgent])>>
            /\ op' = [op EXCEPT !.pc = "lo_stop", !.agent = userAgent]
       ELSE /\ calls' = <<>>
            /\ op' = Ends(op, IF op.name = "logout" THEN "Unknown" ELSE "Unauthorized")
            /\ UNCHANGED ua
    /\ events' = <<>>
    /\ UNCHANGED <<authVars, userAgent, server, clientListeners, primaryVN,
                   timers, nAgents, nOps>>
    /\ UNCHANGED appVars

\* Softphone.logout up to its first await: the lifecycle subscription is
\* removed, then the agent is stopped, or, with no agent, Auth.logout starts.
LogoutBegin ==
    /\ op.pc = "lo_begin"
    /\ appStateSubscription' = FALSE
    /\ IF userAgent # 0
       THEN /\ ua' = [ua EXCEPT ![userAgent] =
                         stopUA([@ EXCEPT !.intent = "stop", !.halted = TRUE,
                                          !.clean = FALSE])]
            /\ calls' = <<Call("stop", userAgent, "facade", ua[userAgent])>>
            /\ op' = [op EXCEPT !.pc = "lo_stop", !.agent = userAgent]
            /\ UNCHANGED <<accessToken, refreshToken, email, permissions>>
       ELSE /\ AuthLogoutSync
            /\ calls' = <<>>
            /\ op' = [op EXCEPT !.pc = "lo_clear"]
            /\ UNCHANGED ua
    /\ events' = <<>>
    /\ UNCHANGED <<sipToken, primaryVirtualNumber, store, accessExpired, sipExpired,
                   userAgent, server, clientListeners, primaryVN, timers, nAgents,
                   nOps>>
    /\ UNCHANGED appVars

\* Softphone.logout: stopUA has settled; the agent is dropped, Auth.logout starts.
LogoutStopped ==
    /\ op.pc = "lo_stop"
    /\ ~ua[op.agent].stopping
    /\ userAgent' = 0
    /\ AuthLogoutSync
    /\ op' = [op EXCEPT !.pc = "lo_clear"]
    /\ calls' = <<>> /\ events' = <<>>
    /\ UNCHANGED <<sipToken, primaryVirtualNumber, store, accessExpired, sipExpired,
                   server, clientListeners, appStateSubscription, primaryVN,
                   timers, ua, nAgents, nOps>>
    /\ UNCHANGED appVars

\* Auth.logout: TokenManager.clear has settled.  Called by the application the
\* operation resolves; called by executeWithRetry it throws Unauthorized.
LogoutCleared ==
    /\ op.pc = "lo_clear"
    /\ store' = NoStore
    /\ op' = Ends(op, IF op.name = "logout" THEN "ok" ELSE "Unauthorized")
    /\ calls' = <<>> /\ events' = <<>>
    /\ UNCHANGED <<accessToken, refreshToken, email, permissions, sipToken,
                   primaryVirtualNumber, accessExpired, sipExpired,
                   facadeVars, timers, ua, nAgents, nOps>>
    /\ UNCHANGED appVars

\* ----------------------------------------------------------------- connect
\* Softphone.connect: reconnect the agent, or start again with the listeners of
\* the last start.  While no other operation is suspended the agent connect
\* finds is never Stopped: logout and the edge-domain switch, which stop it,
\* drop the reference before they end, so reconnect settles without waiting
\* for the transport.  Under a suspended logout or edge-domain switch connect
\* finds the stopped agent and starts it; its wait for the transport is left
\* out.
ConnectBody ==
    /\ op.pc = "body" /\ op.name = "connect"
    /\ IF ~isLoggedIn THEN
            op' = Ends(op, "Unauthorized") /\ calls' = <<>> /\ UNCHANGED ua
       ELSE IF userAgent # 0 THEN
            LET rc == reconnect(userAgent, [ua[userAgent] EXCEPT !.halted = FALSE],
                                "connect")
            IN  /\ ua' = [ua EXCEPT ![userAgent] = rc.r]
                /\ calls' = rc.calls
                /\ op' = Ends(op, IF rc.threw THEN "Error" ELSE "ok")
       ELSE IF clientListeners THEN
            op' = [op EXCEPT !.name = "start"] /\ calls' = <<>> /\ UNCHANGED ua
       ELSE op' = Ends(op, "ok") /\ calls' = <<>> /\ UNCHANGED ua
    /\ events' = <<>>
    /\ UNCHANGED <<authVars, facadeVars, timers, nAgents, nOps>>
    /\ UNCHANGED appVars

\* ------------------------------------------------ overlapping operations
\* The positions from which an operation goes on without giving up control.
SyncPcs == {"body", "caught", "refreshed", "lo_begin", "rf_roles_go"}

\* The operation in flight is suspended at an await, or has ended, and the
\* event loop turns to the other one: the application calls the Facade once
\* more, or the operation called earlier is resumed.
Switch ==
    /\ op.pc \notin SyncPcs
    /\ ~(op.pc = "st_ua" /\ op.agent = 0)
    /\ par.pc # "done"
    /\ ~(op.pc \in {"idle", "done"} /\ par.pc = "idle")
    /\ op' = par
    /\ par' = op
    /\ calls' = <<>> /\ events' = <<>>
    /\ UNCHANGED <<authVars, facadeVars, timers, ua, nAgents, nOps>>
    /\ UNCHANGED <<sess, nSessions, uaSession, app, sdir, cbs, reqs, obs>>

\* ------------------------------------------------- application lifecycle
\* #handleAppStateChange('active'): with an agent, reconnect is scheduled.
Foreground ==
    /\ appStateSubscription
    /\ userAgent # 0
    /\ timers < MaxTimers
    /\ timers' = timers + 1
    /\ calls' = <<>> /\ events' = <<>>
    /\ UNCHANGED <<authVars, facadeVars, ua, nAgents, op, nOps>>
    /\ UNCHANGED appVars

\* The scheduled callback runs: this.#userAgent?.reconnect().
TimerFires ==
    /\ timers > 0
    /\ timers' = timers - 1
    /\ IF userAgent # 0
       THEN LET rc == reconnect(userAgent, ua[userAgent], "timer")
            IN  /\ ua' = [ua EXCEPT ![userAgent] = rc.r]
                /\ calls' = rc.calls
       ELSE /\ UNCHANGED ua
            /\ calls' = <<>>
    /\ events' = <<>>
    /\ UNCHANGED <<authVars, facadeVars, nAgents, op, nOps>>
    /\ UNCHANGED appVars

\* =================================================================== calls
\* Session objects constructed in one run.
MaxSessions == 3

Sessions == 1..MaxSessions

\* The application's listeners: "example" is example/src/App.tsx, "readme" the
\* listener set of the README's usage section.
AppKinds == {"example", "readme"}

\* ghost is observation only: the session whose termination the hangup handler
\* ignored last.
NoApp(kind) == [kind |-> kind, activeSession |-> 0, callState |-> "Idle",
                remoteContact |-> "", ghost |-> 0]

onCallCreated(p, type, s) ==
    IF p.kind = "readme" THEN [p EXCEPT !.activeSession = s]
    ELSE IF type = "Incoming" /\ p.callState = "Incoming"
         THEN [p EXCEPT !.activeSession = s]
         ELSE [p EXCEPT !.activeSession = s, !.remoteContact = "candidate",
                        !.callState = IF type = "Incoming" THEN "Incoming"
                                      ELSE "Dialing"]

onCallRinging(p) ==
    IF p.kind = "readme" THEN p ELSE [p EXCEPT !.callState = "Ringing"]

onCallAnswered(p, s) ==
    IF p.kind = "readme" THEN p
    ELSE [p EXCEPT !.callState = "Active", !.activeSession = s]

\* A hangup handler without the check of the tracked session.
onCallHangup_NoFilter(p, s) ==
    IF p.kind = "readme" THEN [p EXCEPT !.activeSession = 0]
    ELSE [p EXCEPT !.callState = "Idle", !.remoteContact = "", !.activeSession = 0]

onCallHangup(p, s) ==
    IF p.activeSession # 0 /\ p.activeSession # s
    THEN [p EXCEPT !.ghost = s]
    ELSE IF p.kind = "readme" THEN [p EXCEPT !.activeSession = 0]
         ELSE [p EXCEPT !.callState = "Idle", !.remoteContact = "",
                        !.activeSession = 0]

\* The variables of the Facade, the Session Manager and the agents.
coreVars == <<accessToken, refreshToken, email, permissions, sipToken,
              primaryVirtualNumber, store, accessExpired, sipExpired,
              userAgent, server, clientListeners, appStateSubscription, primaryVN,
              timers, ua, nAgents, op, nOps, par, calls, events>>

\* The listener of the Session's stateChange switch for a new state.
Corr(new) ==
    CASE new = "Establishing" -> "ringing"
      [] new = "Established"  -> "answered"
      [] new = "Terminating"  -> "terminating"
      [] new = "Terminated"   -> "hangup"
      [] OTHER                -> "none"

\* One listener invocation: its name, the session passed, the state the session
\* entered, and UserAgent.#session before the step.
Cb(name, s, to) == [name |-> name, s |-> s, to |-> to, slot |-> uaSession]

\* One Session method call or sip.js request: st is the state of the session
\* when it is made; x is "refused" when sip.js rejects the request without
\* sending anything, "threw" when the method call ends with an exception.
Req(k, s, x) == [k |-> k, s |-> s, st |-> sess[s], x |-> x]

\* The observation after the listeners in c were invoked.
Observe(o, c) ==
    [created |-> o.created + Cardinality({i \in 1..Len(c) : c[i].name = "created"}),
     hangups |-> [t \in Sessions |->
                    LET n == Cardinality({i \in 1..Len(c) :
                                             c[i].s = t /\ c[i].name = "hangup"})
                    IN  IF o.hangups[t] + n > 2 THEN 2 ELSE o.hangups[t] + n],
     late |-> [t \in Sessions |->
                 o.late[t] \/ (o.hangups[t] > 0 /\ \E i \in 1..Len(c) : c[i].s = t)]]

\* An onInvite that keeps the session of the slot when there is one.
OnInvite_KeepSlot ==
    /\ userAgent # 0
    /\ nSessions < MaxSessions
    /\ nSessions' = nSessions + 1
    /\ sess' = [sess EXCEPT ![nSessions + 1] = "Initial"]
    /\ sdir' = [sdir EXCEPT ![nSessions + 1] = "Incoming"]
    /\ uaSession' = IF uaSession = 0 THEN nSessions + 1 ELSE uaSession
    /\ app' = onCallCreated(app, "Incoming", nSessions + 1)
    /\ cbs' = <<Cb("created", nSessions + 1, "Initial")>>
    /\ reqs' = <<>>
    /\ obs' = Observe(obs, cbs')
    /\ UNCHANGED coreVars

\* delegate.onInvite: an inbound dialog; a Session is constructed around it.
OnInvite ==
    /\ userAgent # 0
    /\ nSessions < MaxSessions
    /\ nSessions' = nSessions + 1
    /\ sess' = [sess EXCEPT ![nSessions + 1] = "Initial"]
    /\ sdir' = [sdir EXCEPT ![nSessions + 1] = "Incoming"]
    /\ uaSession' = nSessions + 1
    /\ app' = onCallCreated(app, "Incoming", nSessions + 1)
    /\ cbs' = <<Cb("created", nSessions + 1, "Initial")>>
    /\ reqs' = <<>>
    /\ obs' = Observe(obs, cbs')
    /\ UNCHANGED coreVars

\* UserAgent.makeCall: an Inviter and its Session are constructed, the slot is
\* overwritten, call-created is emitted, and invite() takes the Inviter to
\* Establishing.
MakeCallSession ==
    /\ userAgent # 0
    /\ nSessions < MaxSessions
    /\ nSessions' = nSessions + 1
    /\ sess' = [sess EXCEPT ![nSessions + 1] = "Establishing"]
    /\ sdir' = [sdir EXCEPT ![nSessions + 1] = "Outgoing"]
    /\ uaSession' = nSessions + 1
    /\ app' = onCallRinging(onCallCreated(app, "Outgoing", nSessions + 1))
    /\ cbs' = <<Cb("created", nSessions + 1, "Initial"),
                Cb("ringing", nSessions + 1, "Establishing")>>
    /\ reqs' = <<>>
    /\ obs' = Observe(obs, cbs')
    /\ UNCHANGED coreVars

\* One statement of UserAgent.makeCall, in program order: the session it
\* concerns, UserAgent.#session when it runs, the destination it carries.
Did(k, s, slot, dest) == [k |-> k, s |-> s, slot |-> slot, dest |-> dest]

\* The destinations dialed.
Dests == {"n1", "n2"}

\* What the application's onCallCreated does: there is none, it returns, or it
\* throws an error of one of three kinds.
ListenerKinds == {"absent", "returns", "InvalidValue", "Unknown", "Error"}

\* A catch that turns every error into false.
MakeCallResult_SwallowsAll(thrown) == "false"

\* The catch of UserAgent.makeCall: InvalidValueException and UnknownException
\* are thrown on, any other error becomes the return value false.
MakeCallResult(thrown) ==
    IF thrown \in {"InvalidValue", "Unknown"} THEN thrown ELSE "false"

\* UserAgent.makeCall(dest, options) up to the await on inviter.invite() or to
\* its end.  uri: makeURI returns a URI; lst: the application's onCallCreated.
UserAgentMakeCall(dest, uri, lst) ==
    /\ userAgent # 0
    /\ op.pc \in {"idle", "done"}
    /\ nOps < MaxOps
    /\ nSessions < MaxSessions
    /\ nOps' = nOps + 1
    /\ LET s == nSessions + 1
           o == [NoOp EXCEPT !.name = "ua.makeCall", !.number = dest,
                             !.agent = userAgent, !.prev = op.name, !.lst = lst]
           record  == <<Did("record", s, s, dest)>>
           created == IF lst = "absent" THEN <<>>
                      ELSE <<Did("onCallCreated", s, s, dest)>>
       IN  IF ~uri
           THEN /\ op' = Ends([o EXCEPT !.err = "Error"], MakeCallResult("Error"))
                /\ reqs' = <<>> /\ cbs' = <<>> /\ calls' = <<>>
                /\ UNCHANGED <<sess, sdir, uaSession, nSessions, app, obs>>
           ELSE /\ nSessions' = s
                /\ sdir' = [sdir EXCEPT ![s] = "Outgoing"]
                /\ uaSession' = s
                /\ IF lst \in {"absent", "returns"}
                   THEN /\ sess' = [sess EXCEPT ![s] = "Establishing"]
                        /\ app' = onCallRinging(
                                     IF lst = "absent" THEN app
                                     ELSE onCallCreated(app, "Outgoing", s))
                        /\ cbs' = (IF lst = "absent" THEN <<>>
                                   ELSE <<Cb("created", s, "Initial")>>)
                                  \o <<Cb("ringing", s, "Establishing")>>
                        /\ reqs' = record \o created \o <<Did("invite", s, s, dest)>>
                        /\ calls' = <<Call("invite", userAgent, "facade", ua[userAgent])>>
                        /\ op' = [o EXCEPT !.pc = "mc_invite", !.invites = 1]
                   ELSE /\ sess' = [sess EXCEPT ![s] = "Initial"]
                        /\ app' = app
                        /\ cbs' = <<Cb("created", s, "Initial")>>
                        /\ reqs' = record \o created
                        /\ calls' = <<>>
                        /\ op' = Ends([o EXCEPT !.err = lst], MakeCallResult(lst))
                /\ obs' = Observe(obs, cbs')
    /\ events' = <<>>
    /\ UNCHANGED <<authVars, facadeVars, timers, ua, nAgents, par>>

\* A listener that reports Terminating as a hangup as well.
SessionListener_HangupTwice(s, new) ==
    /\ sess' = [sess EXCEPT ![s] = new]
    /\ cbs' = <<Cb(IF new = "Terminating" THEN "hangup" ELSE Corr(new), s, new)>>
    /\ obs' = Observe(obs, cbs')
    /\ CASE new = "Establishing" -> app' = onCallRinging(app) /\ UNCHANGED uaSession
         [] new = "Established"  -> app' = onCallAnswered(app, s) /\ UNCHANGED uaSession
         [] new = "Terminated"   -> app' = onCallHangup(app, s) /\ uaSession' = 0
         [] OTHER                -> app' = onCallHangup(app, s) /\ UNCHANGED uaSession

\* The Session's stateChange listener for the states the application hears of.
SessionListener(s, new) ==
    /\ sess' = [sess EXCEPT ![s] = new]
    /\ cbs' = <<Cb(Corr(new), s, new)>>
    /\ obs' = Observe(obs, cbs')
    /\ CASE new = "Establishing" -> app' = onCallRinging(app) /\ UNCHANGED uaSession
         [] new = "Established"  -> app' = onCallAnswered(app, s) /\ UNCHANGED uaSession
         [] new = "Terminated"   -> app' = onCallHangup(app, s) /\ uaSession' = 0
         [] OTHER                -> UNCHANGED <<app, uaSession>>

\* A hangup that sends BYE whatever the state and the direction.
Hangup_AlwaysBye(s) ==
    /\ reqs' = <<Req("hangup()", s, "made"), Req("bye", s, "made")>>
    /\ IF sess[s] = "Established"
       THEN SessionListener(s, "Terminating")
       ELSE UNCHANGED <<sess, app, uaSession, cbs, obs>>

\* Session.hangup.  sip.js: cancel() takes an Inviter to Terminating, reject()
\* an Invitation to Terminated, bye() a session to Terminating.
Hangup(s) ==
    IF sess[s] \in {"Initial", "Establishing"}
    THEN IF sdir[s] = "Outgoing"
         THEN /\ reqs' = <<Req("hangup()", s, "made"), Req("cancel", s, "made")>>
              /\ SessionListener(s, "Terminating")
         ELSE /\ reqs' = <<Req("hangup()", s, "made"), Req("reject", s, "made")>>
              /\ SessionListener(s, "Terminated")
    ELSE IF sess[s] = "Established"
    THEN /\ reqs' = <<Req("hangup()", s, "made"), Req("bye", s, "made")>>
         /\ SessionListener(s, "Terminating")
    ELSE /\ reqs' = <<Req("hangup()", s, "made")>>
         /\ cbs' = <<>>
         /\ UNCHANGED <<sess, app, uaSession, obs>>

\* Session.answer: accept() on an Invitation whatever its state.  sip.js accepts
\* an invitation in its Initial state only and rejects the call otherwise.
Answer(s) ==
    IF sdir[s] = "Incoming"
    THEN IF sess[s] = "Initial"
         THEN /\ reqs' = <<Req("answer()", s, "made"), Req("accept", s, "made")>>
              /\ SessionListener(s, "Establishing")
         ELSE /\ reqs' = <<Req("answer()", s, "threw"), Req("accept", s, "refused")>>
              /\ cbs' = <<>>
              /\ UNCHANGED <<sess, app, uaSession, obs>>
    ELSE /\ reqs' = <<Req("answer()", s, "made")>>
         /\ cbs' = <<>>
         /\ UNCHANGED <<sess, app, uaSession, obs>>

\* The application's answer button: Session.answer() on the tracked session.
HandleAnswer ==
    /\ app.activeSession # 0
    /\ Answer(app.activeSession)
    /\ UNCHANGED <<coreVars, nSessions, sdir>>

\* The application's hangup button: Session.hangup() on the tracked session.
HandleHangup ==
    /\ app.activeSession # 0
    /\ Hangup(app.activeSession)
    /\ UNCHANGED <<coreVars, nSessions, sdir>>

\* The application calls answer() on a session a listener handed to it.
SessionAnswer(s) ==
    /\ sess[s] # "none"
    /\ Answer(s)
    /\ UNCHANGED <<coreVars, nSessions, sdir>>

\* The application calls hangup() on a session a listener handed to it.
SessionHangup(s) ==
    /\ sess[s] # "none"
    /\ Hangup(s)
    /\ UNCHANGED <<coreVars, nSessions, sdir>>

\* The accepted invitation, or the invite the remote side answered, is established.
SessionEstablished(s) ==
    /\ sess[s] = "Establishing"
    /\ SessionListener(s, "Established")
    /\ reqs' = <<>>
    /\ UNCHANGED <<coreVars, nSessions, sdir>>

\* The dialog ends: the remote CANCEL or BYE, a failed accept, a rejected
\* invite, the end of a cancel or a BYE.
SessionTerminated(s) ==
    /\ sess[s] \in {"Initial", "Establishing", "Established", "Terminating"}
    /\ SessionListener(s, "Terminated")
    /\ reqs' = <<>>
    /\ UNCHANGED <<coreVars, nSessions, sdir>>

\* ==================================================================== login
\* The longest email text of a redirect URL.
MaxLen == 3

\* A character that is not a hex digit, the percent sign, two hex digits.
Chars == {"x", "%", "2", "5"}
Hex == {"2", "5"}

\* The email texts: <<>> is an absent email parameter.
Emails == UNION {[1..n -> Chars] : n \in 1..MaxLen}

\* The percent-encoding of a text by the server that builds the redirect URL.
RECURSIVE Encode(_)
Encode(e) ==
    IF e = <<>> THEN <<>>
    ELSE (IF Head(e) = "%" THEN <<"%", "2", "5">> ELSE <<Head(e)>>)
         \o Encode(Tail(e))

\* The character of a percent escape: %25 is the percent sign, "o" stands for
\* the character of any other escape.
Unescape(h1, h2) == IF h1 = "2" /\ h2 = "5" THEN "%" ELSE "o"

\* URLSearchParams.get: percent escapes are decoded, a percent sign that starts
\* no escape is kept.
RECURSIVE URLGet(_)
URLGet(q) ==
    IF q = <<>> THEN <<>>
    ELSE IF Head(q) = "%" /\ Len(q) >= 3 /\ q[2] \in Hex /\ q[3] \in Hex
    THEN <<Unescape(q[2], q[3])>> \o URLGet(SubSeq(q, 4, Len(q)))
    ELSE <<Head(q)>> \o URLGet(Tail(q))

\* A percent sign that starts no escape.
RECURSIVE Malformed(_)
Malformed(t) ==
    IF t = <<>> THEN FALSE
    ELSE IF Head(t) = "%"
    THEN IF Len(t) >= 3 /\ t[2] \in Hex /\ t[3] \in Hex
         THEN Malformed(SubSeq(t, 4, Len(t)))
         ELSE TRUE
    ELSE Malformed(Tail(t))

\* decodeURIComponent: throws URIError on a malformed text.
decodeURIComponent(t) ==
    IF Malformed(t) THEN [threw |-> TRUE, v |-> <<>>]
    ELSE [threw |-> FALSE, v |-> URLGet(t)]

\* handleRedirect's email: the parameter read from the query and decoded again;
\* an absent or empty parameter gives null.
ParsedEmail(q) ==
    IF URLGet(q) = <<>> THEN [threw |-> FALSE, v |-> <<>>]
    ELSE decodeURIComponent(URLGet(q))

\* The clock of isTokenValid, in the unit of the tokens' exp claims.
currentTimestamp == 1

\* The access tokens handed to manualLogin: none, one jwtDecode cannot decode,
\* one whose exp is not a number (-1), and tokens with exp before, at and after
\* the clock.
TokenInputs ==
    {[present |-> FALSE, decodes |-> FALSE, exp |-> -1],
     [present |-> TRUE, decodes |-> FALSE, exp |-> -1]}
    \cup {[present |-> TRUE, decodes |-> TRUE, exp |-> n] : n \in -1..2}

\* An isTokenValid that takes an undecodable token for an expired one.
isTokenValid_Lenient(t) ==
    IF ~t.present THEN "INVALID"
    ELSE IF ~t.decodes \/ t.exp = -1 THEN "EXPIRED"
    ELSE IF t.exp > currentTimestamp THEN "true" ELSE "EXPIRED"

\* isTokenValid: INVALID without a token, when jwtDecode throws and when exp is
\* not a number; else true before the expiry and EXPIRED from it on.
isTokenValid(t) ==
    IF ~t.present THEN "INVALID"
    ELSE IF ~t.decodes THEN "INVALID"
    ELSE IF t.exp = -1 THEN "INVALID"
    ELSE IF t.exp > currentTimestamp THEN "true" ELSE "EXPIRED"

\* A retrieveUserRoles that accepts every permission set.
RolesOutcome_NoGate(ans, P) ==
    CASE ans = "401"   -> "InvalidToken"
      [] ans = "error" -> "Unknown"
      [] OTHER         -> "none"

\* Auth.retrieveUserRoles after the answer: the error it throws.
RolesOutcome(ans, P) ==
    CASE ans = "401"   -> "InvalidToken"
      [] ans = "error" -> "Unknown"
      [] OTHER         -> IF "sdk" \in P THEN "none" ELSE "PermissionDenied"

\* What a login entry point leaves alone.
loginRest == <<sipToken, primaryVirtualNumber, sipExpired, userAgent, server,
               clientListeners, appStateSubscription, primaryVN, timers, ua,
               nAgents, events>>

\* A login entry point is called when none is running and no un-awaited clear
\* of the store is pending; it works on a new Auth instance.
LoginCall(name) ==
    /\ op.pc \in {"idle", "done"}
    /\ ~op.clearing
    /\ nOps < MaxOps
    /\ nOps' = nOps + 1

\* Softphone.initialize up to the await on TokenManager.get.
Initialize(hasId, hasSecret) ==
    /\ LoginCall("initialize")
    /\ LET o == [NoOp EXCEPT !.name = "initialize", !.prev = op.name]
       IN  IF ~(hasId /\ hasSecret)
           THEN op' = Ends(o, "MissingParameter")
           ELSE op' = [o EXCEPT !.pc = "in_get"]
    /\ calls' = <<>>
    /\ AuthLogoutSync
    /\ UNCHANGED <<store, accessExpired, loginRest>>
    /\ UNCHANGED appVars

\* Auth.initialize: the stored triple, if any, becomes the session, and
\* retrieveUserRoles is entered.
InitializeGot ==
    /\ op.pc = "in_get"
    /\ IF store = NoStore
       THEN /\ op' = Ends(op, "null")
            /\ calls' = <<>>
            /\ UNCHANGED <<accessToken, refreshToken, email>>
       ELSE /\ accessToken' = store.accessToken
            /\ refreshToken' = store.refreshToken
            /\ email' = store.email
            /\ LET o == [op EXCEPT !.found = TRUE, !.tok0 = store.accessToken]
               IN  IF store.accessToken = 0 \/ ~store.email
                   THEN BeginRefresh([o EXCEPT !.verify = "InvalidToken"],
                                     store.refreshToken)
                   ELSE /\ op' = [o EXCEPT !.pc = "in_roles"]
                        /\ calls' = <<Http("http:roles")>>
    /\ UNCHANGED <<permissions, store, accessExpired, nOps, loginRest>>
    /\ UNCHANGED appVars

\* Softphone.initialize: the answer to retrieveUserRoles; every error is caught
\* and followed by refreshAccessToken.
InitializeRolesAnswer(ans, P) ==
    /\ op.pc = "in_roles"
    /\ ans \in BearerAnswers
    /\ ans # "ok" => P = {}
    /\ LET e == RolesOutcome(ans, P)
           o == [op EXCEPT !.fetched = IF ans = "ok" THEN @ + 1 ELSE @]
       IN  IF e = "none"
           THEN /\ permissions' = P
                /\ op' = Ends(o, "instance")
                /\ calls' = <<>>
                /\ UNCHANGED <<accessToken, refreshToken, email>>
           ELSE IF e = "PermissionDenied"
           THEN /\ AuthLogoutSync
                /\ op' = [o EXCEPT !.pc = "in_rclear", !.denied = TRUE, !.verify = e]
                /\ calls' = <<>>
           ELSE /\ BeginRefresh([o EXCEPT !.verify = e], refreshToken)
                /\ UNCHANGED <<accessToken, refreshToken, email, permissions>>
    /\ UNCHANGED <<store, accessExpired, nOps, loginRest>>
    /\ UNCHANGED appVars

\* Softphone.initialize after refreshAccessToken: the instance, or the store is
\* cleared.
InitializeAfterRefresh_GivesUp ==
    /\ op.pc = "refreshed" /\ op.name = "initialize"
    /\ op' = [op EXCEPT !.pc = "in_clear"]
    /\ calls' = <<>>
    /\ UNCHANGED <<authVars, nOps, loginRest>>
    /\ UNCHANGED appVars

InitializeAfterRefresh ==
    /\ op.pc = "refreshed" /\ op.name = "initialize"
    /\ op' = IF op.refreshed = "true" THEN Ends(op, "instance")
             ELSE [op EXCEPT !.pc = "in_clear"]
    /\ calls' = <<>>
    /\ UNCHANGED <<authVars, nOps, loginRest>>
    /\ UNCHANGED appVars

\* An initialize that returns null and leaves the stored triple.
InitializeCleared_KeepsStore ==
    /\ op.pc = "in_clear"
    /\ op' = Ends(op, "null")
    /\ calls' = <<>>
    /\ UNCHANGED <<authVars, nOps, loginRest>>
    /\ UNCHANGED appVars

\* Softphone.initialize: TokenManager.clear has settled; null is returned.
InitializeCleared ==
    /\ op.pc = "in_clear"
    /\ store' = NoStore
    /\ op' = Ends(op, "null")
    /\ calls' = <<>>
    /\ UNCHANGED <<accessToken, refreshToken, email, permissions, sipToken,
                   primaryVirtualNumber, accessExpired, sipExpired, facadeVars,
                   timers, ua, nAgents, events, nOps>>
    /\ UNCHANGED appVars

\* Auth.handleRedirect up to the await on exchangeCodeForToken.  The URL has a
\* query or not, a code or not, and carries the email text e percent-encoded.
HandleRedirect(hasQuery, hasCode, e) ==
    /\ LoginCall("handleRedirect")
    /\ LET o == [NoOp EXCEPT !.name = "handleRedirect", !.prev = op.name,
                             !.urlMail = e]
           parsed == ParsedEmail(Encode(e))
       IN  IF ~hasQuery THEN
                op' = Ends(o, "InvalidValue") /\ calls' = <<>>
           ELSE IF parsed.threw THEN
                op' = Ends(o, "URIError") /\ calls' = <<>>
           ELSE IF ~hasCode \/ parsed.v = <<>> THEN
                op' = Ends(o, "MissingParameter") /\ calls' = <<>>
           ELSE /\ op' = [o EXCEPT !.pc = "hr_exchange", !.mail = parsed.v]
                /\ calls' = <<Http("http:token")>>
    /\ AuthLogoutSync
    /\ UNCHANGED <<store, accessExpired, loginRest>>
    /\ UNCHANGED appVars

\* Auth.handleRedirect: the answer of the code exchange; the returned tokens
\* and the parsed email become the session and retrieveUserRoles is entered.
HandleRedirectExchanged(ans, a, r) ==
    /\ op.pc = "hr_exchange"
    /\ IF ans = "ok"
       THEN /\ accessToken' = a
            /\ refreshToken' = r
            /\ email' = TRUE
            /\ accessExpired' = FALSE
            /\ op' = [op EXCEPT !.pc = "hr_roles", !.ret = <<a, r>>]
            /\ calls' = <<Http("http:roles")>>
       ELSE /\ a = 1 /\ r = 0
            /\ op' = Ends(op, IF ans = "refused" THEN "Unauthorized" ELSE "Unknown")
            /\ calls' = <<>>
            /\ UNCHANGED <<accessToken, refreshToken, email, accessExpired>>
    /\ UNCHANGED <<permissions, store, nOps, loginRest>>
    /\ UNCHANGED appVars

\* Auth.handleRedirect: the answer to retrieveUserRoles.
HandleRedirectRolesAnswer(ans, P) ==
    /\ op.pc = "hr_roles"
    /\ ans \in BearerAnswers
    /\ ans # "ok" => P = {}
    /\ LET e == RolesOutcome(ans, P)
           o == [op EXCEPT !.fetched = IF ans = "ok" THEN @ + 1 ELSE @]
       IN  IF e = "none"
           THEN /\ permissions' = P
                /\ op' = [o EXCEPT !.pc = "hr_save"]
                /\ UNCHANGED <<accessToken, refreshToken, email>>
           ELSE IF e = "PermissionDenied"
           THEN /\ AuthLogoutSync
                /\ op' = [o EXCEPT !.pc = "hr_rclear", !.denied = TRUE, !.verify = e]
           ELSE /\ op' = Ends([o EXCEPT !.verify = e], e)
                /\ UNCHANGED <<accessToken, refreshToken, email, permissions>>
    /\ calls' = <<>>
    /\ UNCHANGED <<store, accessExpired, nOps, loginRest>>
    /\ UNCHANGED appVars

\* Auth.handleRedirect: TokenManager.save has settled.
HandleRedirectSaved ==
    /\ op.pc = "hr_save"
    /\ store' = [accessToken |-> accessToken, refreshToken |-> refreshToken,
                 email |-> email]
    /\ op' = Ends([op EXCEPT !.savedMail = op.mail, !.saves = @ + 1], "ok")
    /\ calls' = <<>>
    /\ UNCHANGED <<accessToken, refreshToken, email, permissions, sipToken,
                   primaryVirtualNumber, accessExpired, sipExpired, facadeVars,
                   timers, ua, nAgents, events, nOps>>
    /\ UNCHANGED appVars

\* Auth.manualLogin up to its first await.
ManualLogin(t, hasEmail, hasRefresh, hasId, hasSecret) ==
    /\ LoginCall("manualLogin")
    /\ LET o == [NoOp EXCEPT !.name = "manualLogin", !.prev = op.name,
                             !.token = t,
                             !.given = [email |-> hasEmail, refresh |-> hasRefresh,
                                        id |-> hasId, secret |-> hasSecret]]
           status == isTokenValid(t)
       IN  IF ~t.present \/ ~hasEmail \/ ~hasRefresh
           THEN /\ op' = Ends(o, "MissingParameter")
                /\ calls' = <<>>
                /\ AuthLogoutSync
                /\ UNCHANGED accessExpired
           ELSE IF status = "EXPIRED" /\ hasId /\ hasSecret
           THEN /\ accessToken' = 1 /\ refreshToken' = 1 /\ email' = TRUE
                /\ permissions' = {}
                /\ accessExpired' = TRUE
                /\ BeginRefresh(o, 1)
           ELSE IF status # "true"
           THEN /\ AuthLogoutSync
                /\ op' = Ends([o EXCEPT !.reason = status, !.clearing = TRUE],
                              "InvalidToken")
                /\ calls' = <<>>
                /\ UNCHANGED accessExpired
           ELSE /\ accessToken' = 1 /\ refreshToken' = 1 /\ email' = TRUE
                /\ permissions' = {}
                /\ accessExpired' = FALSE
                /\ op' = [o EXCEPT !.pc = "ml_roles"]
                /\ calls' = <<Http("http:roles")>>
    /\ UNCHANGED <<store, loginRest>>
    /\ UNCHANGED appVars

\* Auth.manualLogin after refreshAccessToken: logout and Invalid-Token(EXPIRED),
\* or the verification of the refreshed token.
ManualAfterRefresh ==
    /\ op.pc = "refreshed" /\ op.name = "manualLogin"
    /\ IF op.refreshed = "true" /\ HasTokenAndEmail
       THEN /\ op' = [op EXCEPT !.pc = "ml_roles"]
            /\ calls' = <<Http("http:roles")>>
            /\ UNCHANGED <<accessToken, refreshToken, email, permissions>>
       ELSE /\ AuthLogoutSync
            /\ op' = Ends([op EXCEPT !.reason = "EXPIRED", !.clearing = TRUE],
                          "InvalidToken")
            /\ calls' = <<>>
    /\ UNCHANGED <<store, accessExpired, nOps, loginRest>>
    /\ UNCHANGED appVars

\* Auth.manualLogin: the answer to retrieveUserRoles; on an error the session
\* is logged out without awaiting and the error is thrown on.
ManualRolesAnswer(ans, P) ==
    /\ op.pc = "ml_roles"
    /\ ans \in BearerAnswers
    /\ ans # "ok" => P = {}
    /\ LET e == RolesOutcome(ans, P)
           o == [op EXCEPT !.fetched = IF ans = "ok" THEN @ + 1 ELSE @]
       IN  IF e = "none"
           THEN /\ permissions' = P
                /\ op' = [o EXCEPT !.pc = "ml_save"]
                /\ UNCHANGED <<accessToken, refreshToken, email>>
           ELSE IF e = "PermissionDenied"
           THEN /\ AuthLogoutSync
                /\ op' = [o EXCEPT !.pc = "ml_rclear", !.denied = TRUE, !.verify = e]
           ELSE /\ AuthLogoutSync
                /\ op' = Ends([o EXCEPT !.verify = e, !.clearing = TRUE,
                                        !.reason = IF e = "InvalidToken"
                                                   THEN "EXPIRED" ELSE "none"], e)
    /\ calls' = <<>>
    /\ UNCHANGED <<store, accessExpired, nOps, loginRest>>
    /\ UNCHANGED appVars

\* Auth.manualLogin: TokenManager.save has settled.
ManualSaved ==
    /\ op.pc = "ml_save"
    /\ store' = [accessToken |-> accessToken, refreshToken |-> refreshToken,
                 email |-> email]
    /\ op' = Ends([op EXCEPT !.saves = @ + 1], "ok")
    /\ calls' = <<>>
    /\ UNCHANGED <<accessToken, refreshToken, email, permissions, sipToken,
                   primaryVirtualNumber, accessExpired, sipExpired, facadeVars,
                   timers, ua, nAgents, events, nOps>>
    /\ UNCHANGED appVars

\* Auth.logout awaited inside retrieveUserRoles: TokenManager.clear has settled
\* and PermissionDeniedException leaves retrieveUserRoles.  initialize catches
\* it and calls refreshAccessToken; handleRedirect throws it on; manualLogin
\* calls logout once more without awaiting it and throws it on.
RolesLogoutCleared ==
    /\ op.pc \in {"in_rclear", "hr_rclear", "ml_rclear"}
    /\ store' = NoStore
    /\ IF op.name = "initialize"
       THEN BeginRefresh(op, refreshToken)
       ELSE /\ op' = Ends([op EXCEPT !.clearing = (op.name = "manualLogin")],
                          "PermissionDenied")
            /\ calls' = <<>>
    /\ UNCHANGED <<accessToken, refreshToken, email, permissions, sipToken,
                   primaryVirtualNumber, accessExpired, sipExpired, facadeVars,
                   timers, ua, nAgents, events, nOps>>
    /\ UNCHANGED appVars

\* The TokenManager.clear of a logout that was not awaited settles.
ClearSettles ==
    /\ op.clearing
    /\ store' = NoStore
    /\ op' = [op EXCEPT !.clearing = FALSE]
    /\ calls' = <<>>
    /\ UNCHANGED <<accessToken, refreshToken, email, permissions, sipToken,
                   primaryVirtualNumber, accessExpired, sipExpired, facadeVars,
                   timers, ua, nAgents, events, nOps>>
    /\ UNCHANGED appVars

\* ------------------------------------------------------------ the machine
\* No call has been received and the application's listeners are those of
\* the example.
InitCalls ==
    /\ par = NoOp
    /\ sess = [s \in Sessions |-> "none"]
    /\ nSessions = 0
    /\ uaSession = 0
    /\ sdir = [s \in Sessions |-> "none"]
    /\ cbs = <<>>
    /\ reqs = <<>>
    /\ obs = [created |-> 0, hangups |-> [s \in Sessions |-> 0],
              late |-> [s \in Sessions |-> FALSE]]
    /\ app = NoApp("example")

\* A Facade instance right after a login: the triple is held and persisted,
\* the permissions are verified, start has not been called.
Init ==
    /\ accessToken = 1
    /\ refreshToken \in {0, 1}
    /\ email = TRUE
    /\ permissions \in {{"sdk"}, {"sdk", "outbound"}}
    /\ sipToken = 0
    /\ primaryVirtualNumber = "none"
    /\ store = [accessToken |-> accessToken, refreshToken |-> refreshToken,
                email |-> TRUE]
    /\ accessExpired = FALSE
    /\ sipExpired = FALSE
    /\ userAgent = 0
    /\ server = "none"
    /\ clientListeners = FALSE
    /\ appStateSubscription = FALSE
    /\ primaryVN = "none"
    /\ timers = 0
    /\ ua = [a \in Agents |-> NoAgent]
    /\ nAgents = 0
    /\ op = NoOp
    /\ nOps = 0
    /\ calls = <<>>
    /\ events = <<>>
    /\ InitCalls

\* The Facade and its agents while no token's embedded expiry passes.
Next ==
    \/ \E a \in Agents : OnConnect(a)
    \/ \E a \in Agents : ConnectFailed(a)
    \/ \E a \in Agents : OnDisconnect(a)
    \/ \E a \in Agents, new \in {"Registered", "Unregistered"} : RegAnswer(a, new)
    \/ \E a \in Agents : RegLapse(a)
    \/ \E a \in Agents : StopSettles(a)
    \/ \E name \in {"start", "connect", "logout"} : Invoke(name, "valid", "none")
    \/ \E number \in {"empty", "invalid", "valid"}, vn \in {"none"} \cup VNs :
          Invoke("makeCall", number, vn)
    \/ StartBody
    \/ \E ans \in {"ok", "401", "error"} : StartSipAnswer(ans)
    \/ \E ans \in {"ok", "401", "error"}, d \in Domains, def \in {"none"} \cup VNs :
          StartProfileAnswer(ans, d, def)
    \/ StartAgentUp
    \/ MakeCallBody
    \/ \E ans \in {"ok", "401", "error"}, d \in Domains : PatchAnswer(ans, d)
    \/ EdgeStopped
    \/ \E ans \in {"ok", "401", "error"} : EdgeSipAnswer(ans)
    \/ EdgeAgentUp
    \/ \E sent \in BOOLEAN : InviteSettles(sent)
    \/ Catch
    \/ \E ok \in BOOLEAN : RefreshAnswer(ok)
    \/ RefreshSaved
    \/ \E ans \in {"ok", "401", "error"}, P \in SUBSET Perms : RefreshRolesAnswer(ans, P)
    \/ RefreshCleared
    \/ AfterRefresh
    \/ LogoutBegin
    \/ LogoutStopped
    \/ LogoutCleared
    \/ ConnectBody
    \/ Foreground
    \/ TimerFires

Spec == Init /\ [][Next]_vars

\* The session right after start() has resolved: the agent of domain d1 is
\* started, its transport is connected and its first REGISTER is in flight; the
\* lifecycle subscription is registered.
Started ==
    /\ accessToken = 1
    /\ refreshToken = 1
    /\ email = TRUE
    /\ permissions = {"sdk", "outbound"}
    /\ sipToken = 1
    /\ primaryVirtualNumber = "A"
    /\ store = [accessToken |-> 1, refreshToken |-> 1, email |-> TRUE]
    /\ accessExpired = FALSE
    /\ sipExpired = FALSE
    /\ userAgent = 1
    /\ server = "d1"
    /\ clientListeners = TRUE
    /\ appStateSubscription = TRUE
    /\ primaryVN = "none"
    /\ timers = 0
    /\ ua = [a \in Agents |->
               IF a = 1
               THEN startRegistration([NewAgent("d1") EXCEPT
                        !.uaState = "Started", !.transport = "Connected",
                        !.startRes = "ok"])
               ELSE NoAgent]
    /\ nAgents = 1
    /\ op = Ends([NoOp EXCEPT !.name = "start", !.execs = 1, !.agent = 1], "ok")
    /\ nOps = 1
    /\ calls = <<>>
    /\ events = <<>>

InitAgent == Started /\ InitCalls

\* One agent under the events of its transport and registrar, the expiry of
\* the tokens, the lifecycle timer, and the application's connect and logout.
NextAgent ==
    \/ \E a \in Agents : OnConnect(a)
    \/ \E a \in Agents : ConnectFailed(a)
    \/ \E a \in Agents : OnDisconnect(a)
    \/ \E a \in Agents, new \in {"Registered", "Unregistered"} : RegAnswer(a, new)
    \/ \E a \in Agents : RegLapse(a)
    \/ \E a \in Agents, ans \in {"ok", "401", "error"} : UpdateTokenAnswer(a, ans)
    \/ \E a \in Agents : StopSettles(a)
    \/ TokenExpires
    \/ \E name \in {"connect", "logout"} : Invoke(name, "valid", "none")
    \/ ConnectBody
    \/ LogoutBegin
    \/ LogoutStopped
    \/ LogoutCleared
    \/ Foreground
    \/ TimerFires

SpecAgent == InitAgent /\ [][NextAgent]_vars

\* The started session of a user whose default caller id is A, before the
\* application makes its calls.
InitCallerId ==
    /\ accessToken = 1
    /\ refreshToken = 1
    /\ email = TRUE
    /\ permissions = {"sdk", "outbound"}
    /\ sipToken = 1
    /\ primaryVirtualNumber = "A"
    /\ store = [accessToken |-> 1, refreshToken |-> 1, email |-> TRUE]
    /\ accessExpired = FALSE
    /\ sipExpired = FALSE
    /\ userAgent = 1
    /\ server = "d1"
    /\ clientListeners = TRUE
    /\ appStateSubscription = TRUE
    /\ primaryVN = "none"
    /\ timers = 0
    /\ ua = [a \in Agents |->
               IF a = 1
               THEN startRegistration([NewAgent("d1") EXCEPT
                        !.uaState = "Started", !.transport = "Connected",
                        !.startRes = "ok"])
               ELSE NoAgent]
    /\ nAgents = 1
    /\ op = NoOp
    /\ nOps = 0
    /\ calls = <<>>
    /\ events = <<>>
    /\ InitCalls

\* makeCall after makeCall on the started session, with explicit caller ids.
NextCallerId ==
    \/ \E a \in Agents : OnConnect(a)
    \/ \E a \in Agents : ConnectFailed(a)
    \/ \E a \in Agents, new \in {"Registered", "Unregistered"} : RegAnswer(a, new)
    \/ \E a \in Agents : StopSettles(a)
    \/ \E vn \in {"none"} \cup VNs : Invoke("makeCall", "valid", vn)
    \/ MakeCallBody
    \/ \E ans \in {"ok", "401", "error"}, d \in Domains : PatchAnswer(ans, d)
    \/ EdgeStopped
    \/ \E ans \in {"ok", "401", "error"} : EdgeSipAnswer(ans)
    \/ EdgeAgentUp
    \/ \E sent \in BOOLEAN : InviteSettles(sent)
    \/ Catch
    \/ \E ok \in BOOLEAN : RefreshAnswer(ok)
    \/ RefreshSaved
    \/ \E ans \in {"ok", "401", "error"}, P \in SUBSET Perms : RefreshRolesAnswer(ans, P)
    \/ RefreshCleared
    \/ AfterRefresh
    \/ LogoutBegin
    \/ LogoutStopped
    \/ LogoutCleared

SpecCallerId == InitCallerId /\ [][NextCallerId]_vars

\* Two Facade operations of one instance that overlap: the second is called
\* while the first is suspended.  The instance is fresh from a login, or
\* started.
InitOverlap == Init \/ InitCallerId

NextOverlap ==
    \/ \E a \in Agents : OnConnect(a)
    \/ \E a \in Agents : ConnectFailed(a)
    \/ \E a \in Agents, new \in {"Registered", "Unregistered"} : RegAnswer(a, new)
    \/ \E a \in Agents : StopSettles(a)
    \/ \E name \in {"start", "connect", "logout"} : Invoke(name, "valid", "none")
    \/ \E vn \in VNs : Invoke("makeCall", "valid", vn)
    \/ StartBody
    \/ \E ans \in {"ok", "401", "error"} : StartSipAnswer(ans)
    \/ \E ans \in {"ok", "401", "error"}, d \in Domains, def \in {"none"} \cup VNs :
          StartProfileAnswer(ans, d, def)
    \/ StartAgentUp
    \/ MakeCallBody
    \/ \E ans \in {"ok", "401", "error"}, d \in Domains : PatchAnswer(ans, d)
    \/ EdgeStopped
    \/ \E ans \in {"ok", "401", "error"} : EdgeSipAnswer(ans)
    \/ EdgeAgentUp
    \/ \E sent \in BOOLEAN : InviteSettles(sent)
    \/ Catch
    \/ \E ok \in BOOLEAN : RefreshAnswer(ok)
    \/ RefreshSaved
    \/ \E ans \in {"ok", "401", "error"}, P \in SUBSET Perms : RefreshRolesAnswer(ans, P)
    \/ RefreshCleared
    \/ AfterRefresh
    \/ LogoutBegin
    \/ LogoutStopped
    \/ LogoutCleared
    \/ ConnectBody
    \/ Switch

SpecOverlap == InitOverlap /\ [][NextOverlap]_vars

\* The application calls start() and nothing else, a second time while the
\* first call is suspended or after it has ended.
NextStarts ==
    \/ \E a \in Agents : OnConnect(a)
    \/ \E a \in Agents : ConnectFailed(a)
    \/ \E a \in Agents, new \in {"Registered", "Unregistered"} : RegAnswer(a, new)
    \/ \E a \in Agents : StopSettles(a)
    \/ Invoke("start", "valid", "none")
    \/ StartBody
    \/ \E ans \in {"ok", "401", "error"} : StartSipAnswer(ans)
    \/ \E ans \in {"ok", "401", "error"}, d \in Domains, def \in {"none"} \cup VNs :
          StartProfileAnswer(ans, d, def)
    \/ StartAgentUp
    \/ Catch
    \/ \E ok \in BOOLEAN : RefreshAnswer(ok)
    \/ RefreshSaved
    \/ \E ans \in {"ok", "401", "error"}, P \in SUBSET Perms : RefreshRolesAnswer(ans, P)
    \/ RefreshCleared
    \/ AfterRefresh
    \/ LogoutBegin
    \/ LogoutStopped
    \/ LogoutCleared
    \/ Switch

SpecStarts == InitOverlap /\ [][NextStarts]_vars

\* The started agent placing outgoing calls, and what becomes of their dialogs.
NextOutgoing ==
    \/ \E dest \in Dests, uri \in BOOLEAN, lst \in ListenerKinds :
          UserAgentMakeCall(dest, uri, lst)
    \/ \E sent \in BOOLEAN : InviteSettles(sent)
    \/ \E s \in Sessions : SessionEstablished(s)
    \/ \E s \in Sessions : SessionTerminated(s)

SpecOutgoing == InitCallerId /\ [][NextOutgoing]_vars

\* The started session receiving inbound dialogs, with either application.
InitApp ==
    /\ Started
    /\ par = NoOp
    /\ sess = [s \in Sessions |-> "none"]
    /\ nSessions = 0
    /\ uaSession = 0
    /\ sdir = [s \in Sessions |-> "none"]
    /\ cbs = <<>>
    /\ reqs = <<>>
    /\ obs = [created |-> 0, hangups |-> [s \in Sessions |-> 0],
              late |-> [s \in Sessions |-> FALSE]]
    /\ app \in {NoApp(k) : k \in AppKinds}

NextApp ==
    \/ OnInvite
    \/ MakeCallSession
    \/ HandleAnswer
    \/ HandleHangup
    \/ \E s \in Sessions : SessionAnswer(s)
    \/ \E s \in Sessions : SessionHangup(s)
    \/ \E s \in Sessions : SessionEstablished(s)
    \/ \E s \in Sessions : SessionTerminated(s)

SpecApp == InitApp /\ [][NextApp]_vars

\* A process that starts with or without a stored session, whose access token
\* may have passed its expiry.
InitLogin ==
    /\ accessToken = 0
    /\ refreshToken = 0
    /\ email = FALSE
    /\ permissions = {}
    /\ sipToken = 0
    /\ primaryVirtualNumber = "none"
    /\ store \in {NoStore} \cup
                 {[accessToken |-> 1, refreshToken |-> r, email |-> TRUE] : r \in {0, 1}}
    /\ accessExpired \in BOOLEAN
    /\ sipExpired = FALSE
    /\ userAgent = 0
    /\ server = "none"
    /\ clientListeners = FALSE
    /\ appStateSubscription = FALSE
    /\ primaryVN = "none"
    /\ timers = 0
    /\ ua = [a \in Agents |-> NoAgent]
    /\ nAgents = 0
    /\ op = NoOp
    /\ nOps = 0
    /\ calls = <<>>
    /\ events = <<>>
    /\ InitCalls

\* The entry points that produce a session, and the refresh they call.
NextLogin ==
    \/ \E hasId \in BOOLEAN, hasSecret \in BOOLEAN : Initialize(hasId, hasSecret)
    \/ InitializeGot
    \/ \E ans \in {"ok", "401", "error"}, P \in SUBSET Perms :
          InitializeRolesAnswer(ans, P)
    \/ InitializeAfterRefresh
    \/ InitializeCleared
    \/ \E hasQuery \in BOOLEAN, hasCode \in BOOLEAN, e \in Emails \cup {<<>>} :
          HandleRedirect(hasQuery, hasCode, e)
    \/ \E ans \in {"ok", "refused", "error"}, a \in 1..MaxTok, r \in 0..MaxTok :
          HandleRedirectExchanged(ans, a, r)
    \/ \E ans \in {"ok", "401", "error"}, P \in SUBSET Perms :
          HandleRedirectRolesAnswer(ans, P)
    \/ HandleRedirectSaved
    \/ \E t \in TokenInputs, hasEmail \in BOOLEAN, hasRefresh \in BOOLEAN,
          hasId \in BOOLEAN, hasSecret \in BOOLEAN :
          ManualLogin(t, hasEmail, hasRefresh, hasId, hasSecret)
    \/ ManualAfterRefresh
    \/ \E ans \in {"ok", "401", "error"}, P \in SUBSET Perms : ManualRolesAnswer(ans, P)
    \/ ManualSaved
    \/ RolesLogoutCleared
    \/ ClearSettles
    \/ \E ok \in BOOLEAN : RefreshAnswer(ok)
    \/ RefreshSaved
    \/ \E ans \in {"ok", "401", "error"}, P \in SUBSET Perms : RefreshRolesAnswer(ans, P)
    \/ RefreshCleared

SpecLogin == InitLogin /\ [][NextLogin]_vars

\* ================================================================= claims
\* The positions of an operation inside Auth.refreshAccessToken.
RefreshPcs == {"rf_fetch", "rf_save", "rf_roles_go", "rf_roles", "rf_clear",
               "refreshed"}

\* C1: one invocation of a wrapped operation executes its body at most twice
\* and invokes the refresh at most once; the refresh is invoked only after the
\* first execution failed with Invalid-Token; a second execution happens only
\* when the refresh returned true; after a second execution no refresh runs.
C1_RetryAtMostOnce ==
    /\ op.execs <= 2
    /\ op.refreshes <= 1
    /\ op.refreshes = 1 => op.execs >= 1 /\ op.firstErr = "InvalidToken"
    /\ op.execs = 2 => op.refreshes = 1 /\ op.refreshed = "true"
    /\ op.pc \in RefreshPcs \cup {"caught"} => op.execs = 1

\* C1: the second execution has failed as well, and the operation has ended
\* after one refresh.
C1_Witness ==
    /\ op.pc = "done"
    /\ op.execs = 2
    /\ op.refreshes = 1
    /\ op.out \notin {"ok", "true", "false", "undefined"}

\* C2: when the first execution fails with a 401, the refresh succeeds and the
\* second execution fails with a 401 again, the operation ends with the
\* Unauthorized error and the session is logged out: triple, permissions and
\* store are cleared and the agent is stopped and dropped.
C2_SecondFailureLogsOut ==
    (op.pc = "done" /\ op.execs = 2 /\ op.err = "InvalidToken")
    => /\ op.out = "Unauthorized"
       /\ accessToken = 0 /\ refreshToken = 0 /\ ~email
       /\ permissions = {}
       /\ store = NoStore
       /\ userAgent = 0

C6_NoBackgroundRestart ==
    \A i \in 1..Len(calls) :
        (calls[i].by \in {"timer", "auto"} /\ calls[i].k \in {"start", "register"}
         /\ calls[i].x = "made")
        => ~calls[i].h

Min(m, n) == IF m < n THEN m ELSE n

\* C4: starting from a counter of zero in a logged-in session, every one of
\* the first three consecutive Unregistered transitions (no Registered in
\* between, no explicit unregister or stop) starts one automatic
\* re-registration, three in total, and a fourth starts none.
C4_ThreeAttempts ==
    \A a \in Agents :
        (ua[a].made /\ ua[a].clean)
        => ua[a].autos = Min(ua[a].unregs, maxRetryAttempts)

\* C5: the Unregistered transition that follows an explicit unregister() or
\* stop() never starts an automatic re-registration.
C5_NoRetryAfterExplicit ==
    \A a \in Agents : ua[a].seen.intent # "none" => ~ua[a].seen.auto

\* C7: when an automatic re-registration finds the SIP token expired and the
\* access token expired too, it sends no SIP-token exchange and no registration,
\* it leaves the counter at its cap so that no further attempt follows, and the
\* application receives a connection-state event flagged as an error.
C7_ExpiredAccessStopsRetries ==
    \A a \in Agents :
        (/\ events # <<>>
         /\ events[1] = Event(a, "RegistererState", "Unregistered", FALSE)
         /\ ua[a].seen.auto
         /\ sipToken # 0 /\ sipExpired
         /\ accessToken # 0 /\ accessExpired)
        => /\ \A i \in 1..Len(calls) : calls[i].k \notin {"http:sip", "register"}
           /\ ua[a].reRegisterAttempts >= maxRetryAttempts
           /\ \E j \in 1..Len(events) : events[j].isError

\* C8: a registration request, whether the first one, an automatic
\* re-registration or one sent by reconnect, is sent only while the transport
\* is connected.
C8_RegisterOnlyConnected ==
    \A i \in 1..Len(calls) :
        (calls[i].k = "register" /\ calls[i].x = "made")
        => calls[i].t = "Connected"

\* C9: reconnect does exactly one of three things: on a stopped agent it starts
\* the agent and registers nothing; else, with the transport connected and the
\* registration not Registered, it asks for one registration; otherwise it does
\* nothing.
C9_ReconnectCases ==
    (calls # <<>> /\ calls[1].k = "reconnect")
    => LET c == calls[1]
           rest == Tail(calls)
       IN  IF c.s = "Stopped"
           THEN Len(rest) = 1 /\ rest[1].k = "start"
           ELSE IF c.t = "Connected" /\ c.g # "Registered"
           THEN Len(rest) = 1 /\ rest[1].k = "register"
           ELSE rest = <<>>

\* C10: the termination of a session other than the tracked one leaves the
\* tracked session and the tracked call state as they are, whatever happened to
\* either dialog before; and an application that tracks the session of the
\* latest call-created event keeps tracking that session until it terminates.
C10_StaleHangupIgnored ==
    /\ [][\A s \in Sessions :
             (sess[s] # "Terminated" /\ sess'[s] = "Terminated"
              /\ app.activeSession # 0 /\ app.activeSession # s)
             => /\ app'.activeSession = app.activeSession
                /\ app'.callState = app.callState
                /\ app'.remoteContact = app.remoteContact]_vars
    /\ [](\A s \in Sessions :
             (app.kind = "readme" /\ nSessions = s /\ sess[s] # "Terminated")
             => app.activeSession = s)

\* C10: dialog 1 then dialog 2 arrived, dialog 2 is tracked and was answered,
\* and the termination of dialog 1 was ignored.
C10_Witness ==
    /\ nSessions >= 2
    /\ sess[1] = "Terminated"
    /\ sess[2] = "Established"
    /\ app.ghost = 1
    /\ app.activeSession = 2
    /\ app.kind = "example" /\ app.callState = "Active"


\* C11: every inbound invite constructs a new Session, emits exactly one
\* call-created event carrying it, and overwrites UserAgent.#session: the
\* call-created events emitted so far are as many as the sessions constructed,
\* a call-created event carries the newest session, and while no session has
\* terminated the slot holds the newest session.
C11_InviteOverwritesSlot ==
    /\ obs.created = nSessions
    /\ \A i \in 1..Len(cbs) :
         cbs[i].name = "created" =>
            /\ cbs[i].s = nSessions
            /\ uaSession = nSessions
            /\ Cardinality({j \in 1..Len(cbs) : cbs[j].name = "created"}) = 1
    /\ (\A s \in Sessions : sess[s] # "Terminated") =>
          uaSession = nSessions

\* Three inbound invites in a row, none of them terminated.
C11_Witness ==
    /\ nSessions = MaxSessions
    /\ \A s \in Sessions : sdir[s] = "Incoming" /\ sess[s] = "Initial"
    /\ uaSession = MaxSessions
    /\ obs.created = MaxSessions
    /\ cbs = <<[name |-> "created", s |-> MaxSessions, to |-> "Initial",
                slot |-> MaxSessions - 1]>>

\* C12: a hangup callback of session s clears UserAgent.#session only when the
\* slot held s: a slot that held a newer session that has not terminated still
\* holds it after the older session's termination.
C12_ClearsOnlyItself ==
    \A i \in 1..Len(cbs) :
        (/\ cbs[i].name = "hangup"
         /\ cbs[i].slot # 0
         /\ cbs[i].slot # cbs[i].s
         /\ sess[cbs[i].slot] # "Terminated")
        => uaSession = cbs[i].slot

C15_AnswerSilentWhenActive ==
    (/\ reqs # <<>>
     /\ reqs[1].k = "answer()"
     /\ \/ sdir[reqs[1].s] = "Outgoing"
        \/ reqs[1].st \in {"Established", "Terminating", "Terminated"})
    => /\ reqs[1].x # "threw"
       /\ \A i \in 2..Len(reqs) : reqs[i].x # "made"
       /\ sess[reqs[1].s] = reqs[1].st

C17_DifferentCallerIdPatchesOnce ==
    (/\ op.name = "makeCall"
     /\ op.vn # "none"
     /\ op.vn # op.cur
     /\ op.invites >= 1)
    => op.patches = 1

\* C18: a makeCall without an explicit caller id calls with the cached Primary
\* Caller ID and issues no profile update: it goes to its invite, or ends with
\* undefined when the Facade holds no agent; with none cached it fails with
\* Missing-Parameter without profile update, invite or refresh.
C18_DefaultCallerId ==
    (/\ op.name = "makeCall"
     /\ op.execs >= 1
     /\ op.logged /\ op.outbound
     /\ op.number = "valid"
     /\ op.vn = "none")
    => /\ op.patches = 0
       /\ op.target = op.cur
       /\ op.cur = "none" =>
             /\ op.pc \in {"caught", "done"}
             /\ op.err = "MissingParameter"
             /\ op.pc = "done" => op.out = "MissingParameter"
             /\ op.execs = 1 /\ op.refreshes = 0 /\ op.invites = 0
             /\ \A i \in 1..Len(calls) : calls[i].by # "facade"
       /\ op.cur # "none" =>
             /\ op.pc \in {"mc_invite", "done"}
             /\ op.pc = "done" => op.out \in {"true", "false", "undefined"}
             /\ op.invites = (IF op.pc = "done" /\ op.out = "undefined"
                              THEN 0 ELSE 1)

\* makeCall("valid") without caller id and without a cached one has failed.
C18_Witness ==
    /\ op.name = "makeCall"
    /\ op.logged /\ op.outbound
    /\ op.number = "valid" /\ op.vn = "none" /\ op.cur = "none"
    /\ userAgent # 0
    /\ op.pc = "done"
    /\ op.out = "MissingParameter"

\* C19: a makeCall of a logged-in user with the outbound permission whose
\* destination is empty fails with Missing-Parameter, and one whose destination
\* is not a valid number with Invalid-Value: the body runs once, no request of
\* any kind is made and no refresh is attempted.
C19_BadDestinationFailsLocally ==
    (/\ op.name = "makeCall"
     /\ op.execs >= 1
     /\ op.logged /\ op.outbound
     /\ op.number \in {"empty", "invalid"})
    => /\ op.pc \in {"caught", "done"}
       /\ op.err = (IF op.number = "empty" THEN "MissingParameter" ELSE "InvalidValue")
       /\ op.pc = "done" => op.out = op.err
       /\ op.execs = 1 /\ op.refreshes = 0
       /\ op.patches = 0 /\ op.invites = 0
       /\ \A i \in 1..Len(calls) : calls[i].by # "facade"

\* makeCall with an invalid destination on a started Facade has failed.
C19_Witness ==
    /\ op.name = "makeCall"
    /\ op.logged /\ op.outbound
    /\ op.number = "invalid"
    /\ op.vn = "B"
    /\ userAgent # 0
    /\ op.pc = "done"
    /\ op.out = "InvalidValue"

\* C20: when an operation ends with Permission-Denied the session has been
\* logged out: the triple and the store are cleared.
C20_PermissionDeniedLoggedOut ==
    (op.pc = "done" /\ op.out = "PermissionDenied")
    => /\ accessToken = 0
       /\ refreshToken = 0
       /\ ~email
       /\ store = NoStore

Taxonomy == {"MissingParameter", "InvalidValue", "Unauthorized", "InvalidToken",
             "PermissionDenied", "Unknown"}

\* C22: a makeCall whose profile update reported a new edge domain and that
\* ends without an error has sent its invite through an agent constructed for
\* the reported domain, after the agent of the old domain was stopped; also
\* when the switch failed with Invalid-Token and the body ran again.
C22_EdgeSwitchBeforeInvite ==
    (/\ op.name = "makeCall"
     /\ op.dom # "none"
     /\ op.pc \in {"mc_invite", "done"}
     /\ op.pc = "done" => op.out \notin Taxonomy \cup {"Error"})
    => /\ op.invites = 1
       /\ op.agent # 0
       /\ ua[op.agent].domain = op.dom
       /\ \A a \in Agents : (ua[a].made /\ a # op.agent) => ua[a].halted

\* C23: a makeCall ends by resolving to true with an invite sent, by resolving
\* to false, or by raising a taxonomy error.
C23_BooleanOrError ==
    (op.name = "makeCall" /\ op.pc = "done")
    => \/ op.out = "true" /\ op.invites >= 1
       \/ op.out = "false"
       \/ op.out \in Taxonomy

\* The state a logout leaves: no token triple, no permissions, nothing
\* persisted, no agent held, no lifecycle subscription.
Cleared ==
    /\ accessToken = 0
    /\ refreshToken = 0
    /\ ~email
    /\ permissions = {}
    /\ store = NoStore
    /\ userAgent = 0
    /\ ~appStateSubscription

\* C24: logout() called right after a logout() finds the cleared state, keeps
\* it at every step, and resolves without an error.
C24_LogoutIdempotent ==
    /\ (op.name = "logout" /\ op.pc = "done") => (op.out = "ok" /\ Cleared)
    /\ (op.name = "logout" /\ op.prev = "logout") => Cleared

\* The second of two logouts after a start has resolved.
C24_Witness ==
    /\ op.name = "logout"
    /\ op.prev = "logout"
    /\ op.pc = "done"
    /\ op.out = "ok"
    /\ nOps = MaxOps + 1
    /\ \E a \in Agents : ua[a].made

\* C27: an operation of a session without refresh token whose access token is
\* refused as expired ends with Invalid-Token, and no request is sent to the
\* refresh endpoint.
C27_NoRefreshTokenInvalidToken ==
    (/\ op.pc = "done"
     /\ op.firstErr = "InvalidToken"
     /\ op.refreshes = 1
     /\ op.refreshed = "false"
     /\ op.rfSent = 0)
    => op.out = "InvalidToken"

\* C25: an initialize that found a stored session, whose permission
\* verification failed in whatever way and whose refresh then succeeded,
\* returns an instance that holds the refreshed triple, persisted and verified.
C25_RestoreAfterRefresh ==
    (/\ op.name = "initialize"
     /\ op.pc = "done"
     /\ op.verify # "none"
     /\ op.refreshed = "true")
    => /\ op.out = "instance"
       /\ accessToken = op.tok0 + 1
       /\ refreshToken = op.tok0 + 1
       /\ email
       /\ store = [accessToken |-> accessToken, refreshToken |-> refreshToken,
                   email |-> TRUE]
       /\ "sdk" \in permissions

\* The verification failed with an error that is no token error, the refresh
\* succeeded, and the instance was returned.
C25_Witness ==
    /\ op.name = "initialize"
    /\ op.pc = "done"
    /\ op.verify = "Unknown"
    /\ op.refreshed = "true"
    /\ op.out = "instance"
    /\ accessToken = 2

\* C26: initialize returns an instance that holds an access token and a
\* permission set fetched during this initialize and containing the SDK-usage
\* permission, or null; when it returns null after finding a stored triple
\* the store is empty.
C26_NeverPartiallyInitialized ==
    (op.name = "initialize" /\ op.pc = "done")
    => /\ op.out \in {"instance", "null", "MissingParameter"}
       /\ op.out = "instance" =>
             /\ accessToken # 0 /\ email
             /\ "sdk" \in permissions
             /\ op.fetched >= 1
       /\ (op.out = "null" /\ op.found) => store = NoStore

\* The refresh endpoint answered and the new triple was saved, the roles fetch
\* of the refresh failed, and initialize returned null with the store cleared.
C26_Witness ==
    /\ op.name = "initialize"
    /\ op.pc = "done"
    /\ op.out = "null"
    /\ op.found
    /\ op.rfSent = 1
    /\ accessToken = 2
    /\ store = NoStore

\* C28: after a handleRedirect that succeeded the persisted triple is the
\* access and refresh tokens the exchange returned and the email the redirect
\* URL carries.
C28_PersistedTripleIsExchanged ==
    (op.name = "handleRedirect" /\ op.pc = "done" /\ op.out = "ok")
    => /\ store = [accessToken |-> op.ret[1], refreshToken |-> op.ret[2],
                   email |-> TRUE]
       /\ op.savedMail = op.urlMail

\* C29: once a roles fetch has delivered a permission set without the
\* SDK-usage permission the session is logged out: triple and permissions
\* cleared at once, the store cleared when the awaited clear has settled, and
\* handleRedirect and manualLogin fail with Permission-Denied; a session that
\* holds an access token after a roles fetch delivered a set has the SDK-usage
\* permission.
C29_SdkGate ==
    /\ op.denied =>
          /\ accessToken = 0 /\ refreshToken = 0 /\ ~email /\ permissions = {}
          /\ op.pc \notin {"in_rclear", "hr_rclear", "ml_rclear", "rf_clear"}
                => store = NoStore
          /\ (op.pc = "done" /\ op.verify = "PermissionDenied"
                /\ op.name # "initialize") => op.out = "PermissionDenied"
    /\ (op.fetched > 0 /\ accessToken # 0) => "sdk" \in permissions

\* A handleRedirect, called after an initialize, whose roles fetch lacked the
\* SDK-usage permission has failed and the store is empty.
C29_Witness ==
    /\ op.name = "handleRedirect"
    /\ op.prev = "initialize"
    /\ op.denied
    /\ op.pc = "done"
    /\ op.out = "PermissionDenied"
    /\ op.ret # <<>>
    /\ accessToken = 0
    /\ store = NoStore

\* C30: manualLogin sends a refresh request only for an expired token with
\* both client credentials; a missing accessToken, email or refreshToken fails
\* with Missing-Parameter, an expired token without both credentials with
\* Invalid-Token(EXPIRED), an undecodable token or one without numeric exp with
\* Invalid-Token(INVALID), each within the call, without request and without
\* anything saved.
C30_DirectLoginGuards ==
    op.name = "manualLogin" =>
        LET t == op.token
            present == t.present /\ op.given.email /\ op.given.refresh
            creds == op.given.id /\ op.given.secret
            invalid == ~t.decodes \/ t.exp = -1
            expired == ~invalid /\ t.exp <= currentTimestamp
            local == /\ op.pc = "done"
                     /\ calls = <<>>
                     /\ op.rfSent = 0 /\ op.fetched = 0 /\ op.saves = 0
        IN  /\ op.rfSent > 0 => (present /\ expired /\ creds)
            /\ ~present => (local /\ op.out = "MissingParameter")
            /\ (present /\ expired /\ ~creds) =>
                  (local /\ op.out = "InvalidToken" /\ op.reason = "EXPIRED")
            /\ (present /\ invalid) =>
                  (local /\ op.out = "InvalidToken" /\ op.reason = "INVALID")

\* An expired token with a client id but no client secret has failed with
\* Invalid-Token(EXPIRED) over a stored session.
C30_Witness ==
    /\ op.name = "manualLogin"
    /\ op.token = [present |-> TRUE, decodes |-> TRUE, exp |-> currentTimestamp]
    /\ op.given = [email |-> TRUE, refresh |-> TRUE, id |-> TRUE, secret |-> FALSE]
    /\ op.pc = "done"
    /\ op.out = "InvalidToken"
    /\ op.reason = "EXPIRED"
    /\ op.rfSent = 0

\* C31: when a manualLogin fails at the permission verification, the session is
\* discarded by the time the error reaches the caller: no token triple in
\* memory and an empty store, also when the refresh inside manualLogin had
\* saved new tokens.
C31_DiscardedBeforeError ==
    (op.name = "manualLogin" /\ op.pc = "done" /\ op.verify # "none")
    => /\ accessToken = 0 /\ refreshToken = 0 /\ ~email
       /\ store = NoStore

\* C32: whenever no Session Manager operation is in flight and a token triple
\* is held in memory, the persisted triple is that triple.
C32_StoreMirrorsMemory ==
    (op.pc = "done" /\ ~op.clearing /\ accessToken # 0)
    => store = [accessToken |-> accessToken, refreshToken |-> refreshToken,
                email |-> email]

\* C35: the re-registration counter of every agent is between 0 and the cap at
\* all times, and every transition of a registerer to Registered leaves it at
\* 0, also the one that answers a manual reconnect after the budget was used up.
C35_CounterBounded ==
    /\ [](\A a \in Agents : ua[a].reRegisterAttempts \in 0..maxRetryAttempts)
    /\ [][\A a \in Agents :
             (ua[a].reg # "Registered" /\ ua'[a].reg = "Registered")
             => ua'[a].reRegisterAttempts = 0]_vars

\* A connect() was answered by Registered while the counter was at the cap (the
\* event reports the error state the listener saw), and the counter is 0.
C35_Witness ==
    /\ op.name = "connect" /\ op.pc = "done" /\ op.out = "ok"
    /\ \E a \in Agents :
          /\ ua[a].asker = "connect"
          /\ ua[a].reg = "Registered"
          /\ ua[a].reRegisterAttempts = 0
          /\ events = <<Event(a, "RegistererState", "Registered", TRUE)>>

\* C38: an agent's token-update-in-progress flag is set only while its
\* SIP-token exchange is in flight.
C38_FlagOnlyDuringExchange ==
    \A a \in Agents : ua[a].updatingAuth => ua[a].hpc = "rr_token"

\* C39: a makeCall with an explicit caller id, made after an earlier makeCall
\* has switched the profile caller id to V, issues no profile update when its
\* caller id is V and exactly one when it is another.
C39_SwitchedCallerIdIsCurrent ==
    (/\ op.name = "makeCall" /\ op.pc = "done" /\ op.execs = 1
     /\ op.out \in {"true", "false", "undefined"}
     /\ op.active # "none"
     /\ op.vn # "none")
    => op.patches = (IF op.vn = op.active THEN 0 ELSE 1)

\* The position of a statement of UserAgent.makeCall in the claimed order.
Rank(k) == CASE k = "record" -> 1 [] k = "onCallCreated" -> 2 [] OTHER -> 3

\* C34: UserAgent.makeCall records the new outgoing session as the current
\* one, then emits call-created with that session and the dialed destination,
\* then sends the invite; when call-created throws, the session is recorded
\* and no invite is sent; a failed invite gives false, an Invalid-Value or
\* Unknown error is thrown on, any other error gives false.
C34_RecordEmitInvite ==
    op.name = "ua.makeCall" =>
        /\ \A i, j \in 1..Len(reqs) : i < j => Rank(reqs[i].k) < Rank(reqs[j].k)
        /\ \A i \in 1..Len(reqs) :
              /\ reqs[1].k = "record"
              /\ reqs[i].s = reqs[1].s
              /\ reqs[i].slot = reqs[1].s
              /\ reqs[i].dest = op.number
              /\ sdir[reqs[i].s] = "Outgoing"
        /\ (\E i \in 1..Len(reqs) : reqs[i].k = "onCallCreated")
              <=> (reqs # <<>> /\ op.lst # "absent")
        /\ reqs # <<>> =>
              ((\E i \in 1..Len(reqs) : reqs[i].k = "invite") <=> (op.invites = 1))
        /\ op.pc = "done" =>
              /\ op.invites = 1 => op.out \in {"true", "false"}
              /\ op.err \in {"InvalidValue", "Unknown"} => op.out = op.err
              /\ op.err = "Error" => op.out = "false"
              /\ op.out \in {"true", "false", "InvalidValue", "Unknown"}

\* The session was recorded, call-created was emitted with it, the invite was
\* sent and failed: makeCall returned false.
C34_Witness ==
    /\ op.name = "ua.makeCall" /\ op.pc = "done" /\ op.out = "false"
    /\ op.invites = 1
    /\ Len(reqs) = 3
    /\ uaSession = reqs[1].s


\* C33: start() is idempotent.  A start() of an authenticated session that
\* finds an agent ends at once with success, sends nothing to the backend and constructs nothing; and however
\* two start() calls overlap, one agent at most is constructed and started,
\* and a lifecycle subscription is registered only while there is none.
C33_StartIdempotent ==
    /\ [](nAgents <= 1)
    /\ [](\A a \in Agents : ua[a].made /\ ua[a].uaState = "Started" => a = 1)
    /\ [][ /\ (op.name = "start" /\ op.pc = "body" /\ op.execs = 0
              /\ isLoggedIn /\ userAgent # 0 /\ op' # op)
             => /\ op'.pc = "done" /\ op'.out = "ok" /\ op'.execs = 1
                /\ calls' = <<>>
                /\ nAgents' = nAgents /\ ua' = ua /\ userAgent' = userAgent
           /\ (op'.subs + par'.subs > op.subs + par.subs)
             => ~appStateSubscription /\ op'.subs + par'.subs = 1 ]_vars

\* Two start() calls overlapped, both went through their backend calls, and
\* both have ended with success; the first found no agent.
C33_Witness ==
    /\ op.name = "start" /\ par.name = "start"
    /\ op.pc = "done" /\ par.pc = "done"
    /\ op.out = "ok" /\ par.out = "ok"
    /\ ~op.had /\ ~par.had
    /\ op.agent + par.agent = 1
    /\ op.subs + par.subs = 1
    /\ nAgents = 1 /\ userAgent = 1


\* The agents that have been started and not stopped.
Running == {a \in Agents : ua[a].made /\ ua[a].uaState = "Started"}

\* C36: however start, connect, makeCall with an edge-domain switch and logout
\* overlap, at most one agent is started and not stopped, and it is the agent
\* the Facade refers to.
C36_OneRunningAgent ==
    /\ Cardinality(Running) <= 1
    /\ \A a \in Running : userAgent = a


\* C40: two overlapping authenticated operations have both failed with
\* Invalid-Token and have ended.  Each made one refresh at most, and if a
\* refresh of either succeeded the session is logged in, with the triple of a
\* refresh in memory and in the store.
C40_RenewedSessionSurvives ==
    ( /\ op.pc = "done" /\ par.pc = "done"
      /\ op.name \notin {"idle", "logout"} /\ par.name \notin {"idle", "logout"}
      /\ op.firstErr = "InvalidToken" /\ par.firstErr = "InvalidToken" )
    => /\ op.refreshes <= 1 /\ par.refreshes <= 1
       /\ (op.refreshed = "true" \/ par.refreshed = "true")
            => /\ isLoggedIn
               /\ accessToken >= 2
               /\ store = [accessToken |-> accessToken,
                           refreshToken |-> refreshToken, email |-> email]


\* C37: a logout() has completed and the start() it overlapped has ended too;
\* then no agent is running and no lifecycle subscription is registered.
C37_NothingLeftAfterLogout ==
    (\E f, g \in {op, par} :
        /\ f.name = "logout" /\ f.pc = "done" /\ f.out = "ok"
        /\ g.name = "start" /\ g.pc = "done")
    => Running = {} /\ ~appStateSubscription

=============================================================================
